---- MODULE Spec2Model ----
(***************************************************************************)
(* CSVTOOLv2: the CSV ingestion and master-list reconciliation engine.     *)
(*                                                                         *)
(* Two storage backends are modelled side by side as the code has them:    *)
(*   - localDatabase.js (the browser localStorage store), whose text is    *)
(*     the second half of src/src/components/MetricsBar.jsx;               *)
(*   - the Supabase branches of src/src/lib/database.js (the tables of     *)
(*     src/supabase-schema.sql).                                           *)
(* `backend` is fixed at start-up (isSupabaseEnabled()).                   *)
(*                                                                         *)
(* A JavaScript string is a sequence of one-character strings, so that     *)
(* trimming, the scientific-notation pattern and the number formatting of  *)
(* normalizeHB are computed and not assumed.  null/undefined is NULL.      *)
(* Of the 17 CSV columns a row carries HB (the key) and FRL; the other 15  *)
(* are copied by the code exactly as FRL is (`row[X] || null`).  The wall  *)
(* clock (upload_date, created_at, updated_at) is kept only as the order   *)
(* in which uploads are created, which is all that the code reads of it.   *)
(***************************************************************************)
EXTENDS Integers, Sequences, FiniteSets, TLC

(***************************************************************************)
(* Bounds of the model.                                                    *)
(***************************************************************************)
\* uploads ever created (generateId never repeats an id)
MaxUploads == 3
\* rows of one batch handed to saveReportData / updateMasterList
MaxRows == 2
\* updateMasterList calls in one run
MaxUpdates == 2
\* snapshot records the store holds at one time
MaxRecords == 2
\* rows handed to updateMasterList in one run, all calls together
MaxMasterRows == 3
\* files ingested in one run of both stores together
MaxFiles == 2

(***************************************************************************)
(* Strings.                                                                *)
(***************************************************************************)
\* JavaScript null / undefined
NULL == <<"null">>

EMPTY == <<>>

Digits == {"0", "1", "2", "3", "4", "5", "6", "7", "8", "9"}

IsDigit(c) == c \in Digits

DigitVal(c) ==
    CASE c = "0" -> 0 [] c = "1" -> 1 [] c = "2" -> 2 [] c = "3" -> 3
      [] c = "4" -> 4 [] c = "5" -> 5 [] c = "6" -> 6 [] c = "7" -> 7
      [] c = "8" -> 8 [] c = "9" -> 9

DigitChar(d) ==
    CASE d = 0 -> "0" [] d = 1 -> "1" [] d = 2 -> "2" [] d = 3 -> "3"
      [] d = 4 -> "4" [] d = 5 -> "5" [] d = 6 -> "6" [] d = 7 -> "7"
      [] d = 8 -> "8" [] d = 9 -> "9"

\* String.prototype.trim: strip leading and trailing white space
RECURSIVE TrimLeft(_)
TrimLeft(s) == IF s # <<>> /\ Head(s) = " " THEN TrimLeft(Tail(s)) ELSE s

RECURSIVE TrimRight(_)
TrimRight(s) ==
    IF s # <<>> /\ s[Len(s)] = " " THEN TrimRight(SubSeq(s, 1, Len(s) - 1)) ELSE s

Trim(s) == TrimRight(TrimLeft(s))

\* JavaScript truthiness of a string-or-null value
Truthy(v) == v # NULL /\ v # EMPTY

\* `v || null`
OrNull(v) == IF Truthy(v) THEN v ELSE NULL

\* `v || ''`
OrEmpty(v) == IF Truthy(v) THEN v ELSE EMPTY

\* length of the longest prefix of s made of digits
RECURSIVE DigitRun(_)
DigitRun(s) == IF s # <<>> /\ IsDigit(Head(s)) THEN 1 + DigitRun(Tail(s)) ELSE 0

Drop(s, n) == SubSeq(s, n + 1, Len(s))

RECURSIVE Pow10(_)
Pow10(n) == IF n = 0 THEN 1 ELSE 10 * Pow10(n - 1)

\* value of a digit string
RECURSIVE DigitsVal(_)
DigitsVal(s) ==
    IF s = <<>> THEN 0 ELSE 10 * DigitsVal(SubSeq(s, 1, Len(s) - 1)) + DigitVal(s[Len(s)])

\* String(n) for a natural number n
RECURSIVE NatToStr(_)
NatToStr(n) == IF n < 10 THEN <<DigitChar(n)>> ELSE NatToStr(n \div 10) \o <<DigitChar(n % 10)>>

\* String(n) for an integer n
IntToStr(n) == IF n < 0 THEN <<"-">> \o NatToStr(0 - n) ELSE NatToStr(n)

(***************************************************************************)
(* normalizeHB.  SciParts matches /^-?\d+\.?\d*[eE][+-]?\d+$/ from left to  *)
(* right and returns the pieces of the number, or ok = FALSE when the      *)
(* pattern does not match.                                                 *)
(***************************************************************************)
NoMatch == [ok |-> FALSE, neg |-> FALSE, mant |-> <<>>, frac |-> 0, exp |-> 0]

\* s without the one leading character c, when it has it
Skip(s, cs) == IF s # <<>> /\ Head(s) \in cs THEN Tail(s) ELSE s

StartsWith(s, cs) == s # <<>> /\ Head(s) \in cs

\* \d+$ : the digits of the exponent
SciExpDigits(neg, int, frac, eNeg, s6) ==
    IF int = <<>> \/ s6 = <<>> \/ DigitRun(s6) # Len(s6) THEN NoMatch
    ELSE [ok   |-> TRUE,
          neg  |-> neg,
          mant |-> int \o frac,
          frac |-> Len(frac),
          exp  |-> IF eNeg THEN 0 - DigitsVal(s6) ELSE DigitsVal(s6)]

\* [eE][+-]?
SciExp(neg, int, frac, s4) ==
    IF ~StartsWith(s4, {"e", "E"}) THEN NoMatch
    ELSE SciExpDigits(neg, int, frac, StartsWith(Tail(s4), {"-"}),
                      Skip(Tail(s4), {"+", "-"}))

\* \d* : the digits after the point
SciFrac(neg, int, s3) ==
    SciExp(neg, int, SubSeq(s3, 1, DigitRun(s3)), Drop(s3, DigitRun(s3)))

\* \d+\.? : the digits before the point
SciInt(neg, s1) ==
    SciFrac(neg, SubSeq(s1, 1, DigitRun(s1)), Skip(Drop(s1, DigitRun(s1)), {"."}))

\* ^-?
SciParts(s) == SciInt(StartsWith(s, {"-"}), Skip(s, {"-"}))

\* Math.floor(m * 10^k) for the mantissa digits m and k = exponent - fraction digits
FloorScaled(neg, m, k) ==
    IF k >= 0 THEN (IF neg THEN 0 - m * Pow10(k) ELSE m * Pow10(k))
    ELSE IF ~neg THEN m \div Pow10(0 - k)
    ELSE IF m % Pow10(0 - k) = 0 THEN 0 - (m \div Pow10(0 - k))
    ELSE 0 - ((m \div Pow10(0 - k)) + 1)

\* Math.floor(parseFloat(s)) for a string the pattern accepts.  The inputs of
\* the model are short, so the double nearest to the decimal has the same floor.
FloorOfSci(p) == FloorScaled(p.neg, DigitsVal(p.mant), p.exp - p.frac)

\* a conversion that leaves its result in exponent notation
normalizeTrimmed_Exponent(strValue, p) ==
    IF p.ok THEN IntToStr(FloorOfSci(p)) \o <<"E", "1">> ELSE strValue

\* the test of the pattern and the conversion, on the trimmed string
normalizeTrimmed(strValue, p) ==
    IF p.ok THEN IntToStr(FloorOfSci(p)) ELSE strValue

normalizeHB(value) ==
    IF value = NULL \/ value = EMPTY THEN EMPTY
    ELSE normalizeTrimmed(Trim(value), SciParts(Trim(value)))

(***************************************************************************)
(* Inputs: the rows a caller hands to saveReportData / updateMasterList.   *)
(* "1E1" and "10" are two spellings of one key; one row has no key.        *)
(***************************************************************************)
RowInputs ==
    { [HB |-> EMPTY, FRL |-> <<"F">>],
      [HB |-> <<"A">>, FRL |-> EMPTY],
      [HB |-> <<"1", "E", "1">>, FRL |-> <<"F">>],
      [HB |-> <<"1", "0">>, FRL |-> EMPTY] }

RECURSIVE SeqsUpTo(_, _)
SeqsUpTo(S, n) ==
    IF n = 0 THEN { <<>> }
    ELSE LET shorter == SeqsUpTo(S, n - 1)
         IN  shorter \cup { Append(q, x) : q \in { t \in shorter : Len(t) = n - 1 }, x \in S }

Batches == SeqsUpTo(RowInputs, MaxRows) \ { <<>> }

\* upload_id of the upload row that owns the Supabase master list ('master')
MASTER == 0

(***************************************************************************)
(* Sequence helpers (Array.prototype.filter / map / findIndex, Set).       *)
(***************************************************************************)
RECURSIVE SelectIdx(_, _, _)
SelectIdx(s, keep, i) ==
    IF i > Len(s) THEN <<>>
    ELSE (IF i \in keep THEN <<s[i]>> ELSE <<>>) \o SelectIdx(s, keep, i + 1)

\* s.filter(x => x \in the elements whose index is in keep)
Filter(s, keep) == SelectIdx(s, keep, 1)

\* s.findIndex(pred), 1-based; 0 stands for JavaScript's -1
FirstIdx(idxs) == IF idxs = {} THEN 0 ELSE CHOOSE i \in idxs : \A j \in idxs : i <= j

(***************************************************************************)
(* State.                                                                  *)
(***************************************************************************)
VARIABLES
    backend,        \* "local" | "supabase": isSupabaseEnabled(), fixed at start-up
    nextUpload,     \* uploads created so far (generateId / upload_date of the next one)
    idSeq,          \* row and entry ids handed out so far by generateId / uuid
    nUpdates,       \* updateMasterList calls made so far
    nRows,          \* rows handed to updateMasterList so far
    lsUploads,      \* localStorage csvdock_uploads: newest first
    lsReportData,   \* localStorage csvdock_report_data
    lsMasterList,   \* localStorage csvdock_master_list
    sbUploads,      \* Supabase table uploads
    sbOceanData,    \* Supabase table ocean_data, in insertion order
    call,           \* the last call made and what it returned
    dash            \* the Dashboard: selection, pending effect, loads in flight, what is shown

vars == <<backend, nextUpload, idSeq, nUpdates, nRows, lsUploads, lsReportData,
          lsMasterList, sbUploads, sbOceanData, call, dash>>

NoCall == [op |-> "none", uploadId |-> 0, rows |-> <<>>,
           ret |-> [n |-> 0, itemsAdded |-> 0, itemsUpdated |-> 0]]

Ret(n, a, u) == [n |-> n, itemsAdded |-> a, itemsUpdated |-> u]

\* the selection of the Dashboard: useState(true), useState(null), useState('all')
Selection(isMasterList, selectedUpload, activeFilter) ==
    [isMasterList |-> isMasterList, selectedUpload |-> selectedUpload,
     activeFilter |-> activeFilter]

\* no result has been set: useState([]) and the zero metrics
NothingShown == [isMasterList |-> FALSE, selectedUpload |-> 0, activeFilter |-> "none"]

\* the Dashboard after its first render: the master list is selected (selectedUpload
\* null, written 0), the effect of the first render has not run yet, nothing is loaded
initialDashboard ==
    [selection |-> Selection(TRUE, 0, "all"),
     effect    |-> TRUE,
     loads     |-> <<>>,
     shown     |-> NothingShown,
     loading   |-> FALSE]

Init ==
    /\ backend \in {"local", "supabase"}
    /\ nextUpload = 0
    /\ idSeq = 0
    /\ nUpdates = 0
    /\ nRows = 0
    /\ lsUploads = <<>>
    /\ lsReportData = <<>>
    /\ lsMasterList = <<>>
    /\ sbUploads = {}
    /\ sbOceanData = <<>>
    /\ call = NoCall
    /\ dash = initialDashboard


(***************************************************************************)
(* localDatabase.js: the localStorage backend.                             *)
(***************************************************************************)
\* a saveUpload that pushes the new upload at the end of the array
localDB_saveUpload_Push(uploads, id) == uploads \o <<[id |-> id, upload_date |-> id]>>

\* saveUpload: uploads.unshift(newUpload)
localDB_saveUpload(uploads, id) == <<[id |-> id, upload_date |-> id]>> \o uploads

\* deleteUpload, the uploads part: filter(u => u.id !== uploadId)
localDB_deleteUpload(uploads, uploadId) ==
    Filter(uploads, { i \in DOMAIN uploads : uploads[i].id # uploadId })

\* deleteUpload, the report-data part: filter(r => r.upload_id !== uploadId)
localDB_deleteReportRows(reportData, uploadId) ==
    Filter(reportData, { i \in DOMAIN reportData : reportData[i].upload_id # uploadId })

\* saveReportData: rows.map(...) pushed at the end of the stored array
\* a snapshot that stores the HB as it stands in the file
localDB_dataToInsert_RawKey(uploadId, rows, ids) ==
    [i \in 1..Len(rows) |->
        [id        |-> ids + i,
         upload_id |-> uploadId,
         hb        |-> OrNull(rows[i].HB),
         frl       |-> OrNull(rows[i].FRL)]]

localDB_dataToInsert(uploadId, rows, ids) ==
    [i \in 1..Len(rows) |->
        [id        |-> ids + i,
         upload_id |-> uploadId,
         hb        |-> normalizeHB(rows[i].HB),
         frl       |-> OrNull(rows[i].FRL)]]

localDB_saveReportData(reportData, uploadId, rows, ids) ==
    reportData \o localDB_dataToInsert(uploadId, rows, ids)

\* getReportData(uploadId, filter = 'all')
localDB_getReportData(reportData, uploadId) ==
    Filter(reportData, { i \in DOMAIN reportData : reportData[i].upload_id = uploadId })

\* a write that stores the first new record and then fails
localDB_setStorage_Partial(stored, data, quotaExceeded) ==
    IF quotaExceeded THEN SubSeq(data, 1, Len(stored) + 1) ELSE data

\* setStorage(key, data): one localStorage.setItem, which replaces the stored
\* value or throws (QuotaExceededError) and leaves it
localDB_setStorage(stored, data, quotaExceeded) ==
    IF quotaExceeded THEN stored ELSE data

\* { ...existing, ...itemData }
Spread(existing, itemData) ==
    [f \in (DOMAIN existing) \cup (DOMAIN itemData) |->
        IF f \in DOMAIN itemData THEN itemData[f] ELSE existing[f]]

\* a reconciler that merges instead of overwriting: a populated field survives
\* an empty incoming value
localDB_updateRow_KeepPopulated(st, uploadId, row) ==
    LET hb == normalizeHB(row.HB)
        masterList == st.masterList
        existingIndex == FirstIdx({ i \in DOMAIN masterList : masterList[i].hb = hb })
        itemData == [hb |-> hb,
                     frl |-> OrNull(row.FRL),
                     last_updated_upload_id |-> uploadId]
        kept == IF existingIndex > 0 /\ ~Truthy(row.FRL)
                THEN [itemData EXCEPT !.frl = masterList[existingIndex].frl]
                ELSE itemData
    IN  IF ~Truthy(hb) THEN st
        ELSE IF existingIndex > 0
        THEN [st EXCEPT !.masterList[existingIndex] = Spread(masterList[existingIndex], kept),
                        !.itemsUpdated = @ + 1]
        ELSE [st EXCEPT !.masterList = Append(masterList,
                                Spread(itemData, [id |-> st.ids + 1,
                                                  first_seen_upload_id |-> uploadId,
                                                  created_at |-> st.ids + 1])),
                        !.itemsAdded = @ + 1,
                        !.ids = @ + 1]

\* a reconciler that keeps the values of the first row of a key (first write wins)
localDB_updateRow_FirstWins(st, uploadId, row) ==
    LET hb == normalizeHB(row.HB)
        masterList == st.masterList
        existingIndex == FirstIdx({ i \in DOMAIN masterList : masterList[i].hb = hb })
        itemData == [hb |-> hb,
                     frl |-> OrNull(row.FRL),
                     last_updated_upload_id |-> uploadId]
    IN  IF ~Truthy(hb) THEN st
        ELSE IF existingIndex > 0
        THEN [st EXCEPT !.itemsUpdated = @ + 1]
        ELSE [st EXCEPT !.masterList = Append(masterList,
                                Spread(itemData, [id |-> st.ids + 1,
                                                  first_seen_upload_id |-> uploadId,
                                                  created_at |-> st.ids + 1])),
                        !.itemsAdded = @ + 1,
                        !.ids = @ + 1]

\* a reconciler that puts a new entry in the place of the existing one
localDB_updateRow_Replace(st, uploadId, row) ==
    LET hb == normalizeHB(row.HB)
        masterList == st.masterList
        existingIndex == FirstIdx({ i \in DOMAIN masterList : masterList[i].hb = hb })
        itemData == [hb |-> hb,
                     frl |-> OrNull(row.FRL),
                     last_updated_upload_id |-> uploadId,
                     id |-> st.ids + 1,
                     first_seen_upload_id |-> uploadId,
                     created_at |-> st.ids + 1]
    IN  IF ~Truthy(hb) THEN st
        ELSE IF existingIndex > 0
        THEN [st EXCEPT !.masterList[existingIndex] = itemData,
                        !.itemsUpdated = @ + 1,
                        !.ids = @ + 1]
        ELSE [st EXCEPT !.masterList = Append(masterList, itemData),
                        !.itemsAdded = @ + 1,
                        !.ids = @ + 1]

\* one iteration of the for-loop of updateMasterList; st carries the array being
\* built, the two counters and the ids handed out.  generateId() and created_at
\* are both the instant of creation: the id counter stands for it
localDB_updateRow(st, uploadId, row) ==
    LET hb == normalizeHB(row.HB)
        masterList == st.masterList
        existingIndex == FirstIdx({ i \in DOMAIN masterList : masterList[i].hb = hb })
        itemData == [hb |-> hb,
                     frl |-> OrNull(row.FRL),
                     last_updated_upload_id |-> uploadId]
    IN  IF ~Truthy(hb) THEN st
        ELSE IF existingIndex > 0
        THEN [st EXCEPT !.masterList[existingIndex] = Spread(masterList[existingIndex], itemData),
                        !.itemsUpdated = @ + 1]
        ELSE [st EXCEPT !.masterList = Append(masterList,
                                Spread(itemData, [id |-> st.ids + 1,
                                                  first_seen_upload_id |-> uploadId,
                                                  created_at |-> st.ids + 1])),
                        !.itemsAdded = @ + 1,
                        !.ids = @ + 1]

RECURSIVE localDB_updateRows(_, _, _, _)
localDB_updateRows(st, uploadId, rows, i) ==
    IF i > Len(rows) THEN st
    ELSE localDB_updateRows(localDB_updateRow(st, uploadId, rows[i]), uploadId, rows, i + 1)

\* updateMasterList(uploadId, rows): the new array, { itemsAdded, itemsUpdated }, ids
localDB_updateMasterList(masterList, uploadId, rows, ids) ==
    localDB_updateRows([masterList |-> masterList, itemsAdded |-> 0,
                        itemsUpdated |-> 0, ids |-> ids],
                       uploadId, rows, 1)

(***************************************************************************)
(* database.js with Supabase enabled: the tables of supabase-schema.sql.   *)
(***************************************************************************)
\* .from('uploads').insert({ upload_id, ... }); upload_date defaults to NOW()
sb_saveUpload(uploads, id) == uploads \cup { [upload_id |-> id, upload_date |-> id] }

\* .from('uploads').delete().eq('upload_id', uploadId)
sb_deleteUpload(uploads, uploadId) == { u \in uploads : u.upload_id # uploadId }

\* a foreign key without ON DELETE CASCADE: the rows of the upload stay
sb_cascade_Keep(oceanData, uploadId) == oceanData

\* ocean_data.upload_id REFERENCES uploads(upload_id) ON DELETE CASCADE
sb_cascade(oceanData, uploadId) ==
    Filter(oceanData, { i \in DOMAIN oceanData : oceanData[i].upload_id # uploadId })

\* saveReportData, ocean column mapping: hb: row['HB'] || row['hb'] || ''
sb_reportRecords(uploadId, data, ids) ==
    [i \in 1..Len(data) |->
        [id        |-> ids + i,
         upload_id |-> uploadId,
         hb        |-> OrEmpty(data[i].HB),
         frl_date  |-> OrEmpty(data[i].FRL),
         status    |-> "active"]]

sb_saveReportData(oceanData, uploadId, data, ids) ==
    oceanData \o sb_reportRecords(uploadId, data, ids)

\* .from(tableName).insert(records): one INSERT statement; with an error no
\* row of it is in the table
sb_insert(table, inserted, error) ==
    IF error THEN table ELSE inserted

\* saveMasterList: .upsert({ upload_id: 'master', ... }, { onConflict: 'upload_id' })
sb_upsertMasterUpload(uploads, now) ==
    IF \E u \in uploads : u.upload_id = MASTER THEN uploads
    ELSE uploads \cup { [upload_id |-> MASTER, upload_date |-> now] }

\* saveMasterList: .update({ status: 'inactive' }).eq('status', 'active')
sb_markInactive(oceanData) ==
    [i \in DOMAIN oceanData |-> [oceanData[i] EXCEPT !.status = "inactive"]]

\* saveMasterList: data.map(row => ({ upload_id: 'master', ...row, status: 'active' }));
\* the row's columns are stored as handed in
sb_masterRecords(data, ids) ==
    [i \in 1..Len(data) |->
        [id        |-> ids + i,
         upload_id |-> MASTER,
         hb        |-> data[i].HB,
         frl_date  |-> data[i].FRL,
         status    |-> "active"]]

sb_saveMasterList(oceanData, data, ids) ==
    sb_markInactive(oceanData) \o sb_masterRecords(data, ids)

\* .order('upload_date', { ascending: false })
RECURSIVE sb_orderDesc(_)
sb_orderDesc(rows) ==
    IF rows = {} THEN <<>>
    ELSE LET top == CHOOSE u \in rows : \A v \in rows : v.upload_date <= u.upload_date
         IN  <<top>> \o sb_orderDesc(rows \ {top})

\* getAllUploads: .neq('upload_id', 'master'), newest first, id := upload_id
sb_getAllUploads(uploads) ==
    LET sorted == sb_orderDesc({ u \in uploads : u.upload_id # MASTER })
    IN  [i \in DOMAIN sorted |->
            [id |-> sorted[i].upload_id, upload_date |-> sorted[i].upload_date]]

\* getReportData: .eq('upload_id', uploadId).eq('status', 'active')
sb_getReportData(oceanData, uploadId) ==
    Filter(oceanData, { i \in DOMAIN oceanData :
                          oceanData[i].upload_id = uploadId /\ oceanData[i].status = "active" })

\* getMasterList: .eq('upload_id', 'master').eq('status', 'active')
sb_getMasterList(oceanData) == sb_getReportData(oceanData, MASTER)

\* .from(tableName).select(...).eq('upload_id', uploadId): no status filter
sb_rowsOf(oceanData, uploadId) ==
    Filter(oceanData, { i \in DOMAIN oceanData : oceanData[i].upload_id = uploadId })


(***************************************************************************)
(* Reads, as the Dashboard reaches them.                                   *)
(***************************************************************************)
\* getAllUploads(): the existing uploads, newest first
getAllUploads ==
    IF backend = "local" THEN lsUploads ELSE sb_getAllUploads(sbUploads)

ExistingIds == { getAllUploads[i].id : i \in DOMAIN getAllUploads }

\* the stored records of one upload, as the diff engine selects them
SnapshotRows(uploadId) ==
    IF backend = "local" THEN localDB_getReportData(lsReportData, uploadId)
    ELSE sb_rowsOf(sbOceanData, uploadId)

\* getReportData(uploadId)
getReportData(uploadId) ==
    IF backend = "local" THEN localDB_getReportData(lsReportData, uploadId)
    ELSE sb_getReportData(sbOceanData, uploadId)

\* getMasterListData() / getMasterList(), of a given store
masterListOf(b, masterList, oceanData) ==
    IF b = "local" THEN masterList ELSE sb_getMasterList(oceanData)

getMasterList == masterListOf(backend, lsMasterList, sbOceanData)

(***************************************************************************)
(* Diff engine.  Both backends run the same comparison over the list of    *)
(* uploads (newest first) and the rows of the two uploads.                 *)
(***************************************************************************)
\* uploads.findIndex(u => u.id === currentUploadId), 1-based, 0 when absent
IndexOfUpload(uploads, currentUploadId) ==
    FirstIdx({ i \in DOMAIN uploads : uploads[i].id = currentUploadId })

\* currentIndex === -1 || currentIndex >= uploads.length - 1
NoPrevious(uploads, currentUploadId) ==
    LET currentIndex == IndexOfUpload(uploads, currentUploadId)
    IN  currentIndex = 0 \/ currentIndex >= Len(uploads)

\* uploads[currentIndex + 1].id
PrevUploadId(uploads, currentUploadId) ==
    uploads[IndexOfUpload(uploads, currentUploadId) + 1].id

\* new Set(rows.filter(r => r.hb).map(r => r.hb))
HBSet(rows) == { rows[i].hb : i \in { j \in DOMAIN rows : Truthy(rows[j].hb) } }

\* a count that takes the distinct keys also when there is no previous upload
detectNewItems_DistinctKeys(currentUploadId) ==
    LET currentHBs == HBSet(SnapshotRows(currentUploadId))
        prevHBs == IF NoPrevious(getAllUploads, currentUploadId) THEN {}
                   ELSE HBSet(SnapshotRows(PrevUploadId(getAllUploads, currentUploadId)))
    IN  Cardinality({ hb \in currentHBs : hb \notin prevHBs })

detectNewItems(currentUploadId) ==
    IF NoPrevious(getAllUploads, currentUploadId)
    THEN Len(SnapshotRows(currentUploadId))
    ELSE LET currentHBs == HBSet(SnapshotRows(currentUploadId))
             prevHBs == HBSet(SnapshotRows(PrevUploadId(getAllUploads, currentUploadId)))
         IN  Cardinality({ hb \in currentHBs : hb \notin prevHBs })

detectRemovedItems(currentUploadId) ==
    IF NoPrevious(getAllUploads, currentUploadId)
    THEN 0
    ELSE LET currentHBs == HBSet(SnapshotRows(currentUploadId))
             prevHBs == HBSet(SnapshotRows(PrevUploadId(getAllUploads, currentUploadId)))
         IN  Cardinality({ hb \in prevHBs : hb \notin currentHBs })

\* a comparison that forgets the keys of the previous upload
getNewItemsData_NoPrevKeys(currentUploadId) ==
    LET currentData == SnapshotRows(currentUploadId)
    IN  IF NoPrevious(getAllUploads, currentUploadId)
        THEN currentData
        ELSE Filter(currentData, { i \in DOMAIN currentData : Truthy(currentData[i].hb) })

getNewItemsData(currentUploadId) ==
    LET currentData == SnapshotRows(currentUploadId)
    IN  IF NoPrevious(getAllUploads, currentUploadId)
        THEN currentData
        ELSE LET prevHBs == HBSet(SnapshotRows(PrevUploadId(getAllUploads, currentUploadId)))
             IN  Filter(currentData, { i \in DOMAIN currentData :
                            Truthy(currentData[i].hb) /\ currentData[i].hb \notin prevHBs })

getRemovedItemsData(currentUploadId) ==
    IF NoPrevious(getAllUploads, currentUploadId)
    THEN <<>>
    ELSE LET currentHBs == HBSet(SnapshotRows(currentUploadId))
             prevData == SnapshotRows(PrevUploadId(getAllUploads, currentUploadId))
         IN  Filter(prevData, { i \in DOMAIN prevData :
                        Truthy(prevData[i].hb) /\ prevData[i].hb \notin currentHBs })

\* snapshot records in the store (the master rows of ocean_data are not counted)
StoredRecords ==
    IF backend = "local" THEN Len(lsReportData)
    ELSE Cardinality({ i \in DOMAIN sbOceanData : sbOceanData[i].upload_id # MASTER })

\* the id saveUpload returned last, while that upload exists: the upload flow
\* stores the rows of a file under the upload it has just created
LatestUploadId ==
    { getAllUploads[i].id : i \in { j \in DOMAIN getAllUploads : j = 1 } }

(***************************************************************************)
(* Operations.                                                             *)
(***************************************************************************)
saveUpload ==
    /\ nextUpload < MaxUploads
    /\ LET id == nextUpload + 1
       IN  /\ nextUpload' = id
           /\ \/ /\ backend = "local"
                 /\ lsUploads' = localDB_saveUpload(lsUploads, id)
                 /\ UNCHANGED sbUploads
              \/ /\ backend = "supabase"
                 /\ sbUploads' = sb_saveUpload(sbUploads, id)
                 /\ UNCHANGED lsUploads
           /\ call' = [NoCall EXCEPT !.op = "saveUpload", !.uploadId = id]
    /\ UNCHANGED <<backend, idSeq, nUpdates, nRows, lsReportData, lsMasterList, sbOceanData,
                   dash>>

deleteUpload ==
    \E uploadId \in ExistingIds :
        /\ \/ /\ backend = "local"
              /\ lsUploads' = localDB_deleteUpload(lsUploads, uploadId)
              /\ lsReportData' = localDB_deleteReportRows(lsReportData, uploadId)
              /\ UNCHANGED <<sbUploads, sbOceanData>>
           \/ /\ backend = "supabase"
              /\ sbUploads' = sb_deleteUpload(sbUploads, uploadId)
              /\ sbOceanData' = sb_cascade(sbOceanData, uploadId)
              /\ UNCHANGED <<lsUploads, lsReportData>>
        /\ call' = [NoCall EXCEPT !.op = "deleteUpload", !.uploadId = uploadId]
        /\ UNCHANGED <<backend, nextUpload, idSeq, nUpdates, nRows, lsMasterList, dash>>

\* saveReportData(uploadId, rows); failed: the one write of the call throws
saveReportDataOf(uploadId, rows, failed) ==
    /\ StoredRecords + Len(rows) <= MaxRecords
    /\ idSeq' = IF failed THEN idSeq ELSE idSeq + Len(rows)
    /\ \/ /\ backend = "local"
          /\ lsReportData' =
                localDB_setStorage(lsReportData,
                    localDB_saveReportData(lsReportData, uploadId, rows, idSeq),
                    failed)
          /\ UNCHANGED sbOceanData
       \/ /\ backend = "supabase"
          /\ sbOceanData' =
                sb_insert(sbOceanData,
                    sb_saveReportData(sbOceanData, uploadId, rows, idSeq),
                    failed)
          /\ UNCHANGED lsReportData
    /\ call' = [op |-> "saveReportData", uploadId |-> uploadId, rows |-> rows,
                ret |-> IF failed THEN Ret(0, 0, 0) ELSE Ret(Len(rows), 0, 0),
                threw |-> failed]
    /\ UNCHANGED <<backend, nextUpload, nUpdates, nRows, lsUploads, lsMasterList, sbUploads,
                   dash>>

saveReportData ==
    \E uploadId \in LatestUploadId, rows \in Batches, failed \in BOOLEAN :
        saveReportDataOf(uploadId, rows, failed)

\* a call of saveReportData that returns
saveReportDataReturns ==
    \E uploadId \in LatestUploadId, rows \in Batches :
        saveReportDataOf(uploadId, rows, FALSE)

\* updateMasterList(uploadId, rows)
updateMasterListOf(uploadId, rows) ==
    /\ nUpdates < MaxUpdates
    /\ nRows + Len(rows) <= MaxMasterRows
    /\ nRows' = nRows + Len(rows)
    /\ nUpdates' = nUpdates + 1
    /\ \/ /\ backend = "local"
          /\ LET r == localDB_updateMasterList(lsMasterList, uploadId, rows, idSeq)
             IN  /\ lsMasterList' = r.masterList
                 /\ idSeq' = r.ids
                 /\ call' = [op |-> "updateMasterList", uploadId |-> uploadId,
                             rows |-> rows,
                             ret |-> Ret(0, r.itemsAdded, r.itemsUpdated)]
          /\ UNCHANGED <<sbUploads, sbOceanData>>
       \/ /\ backend = "supabase"
          /\ sbUploads' = sb_upsertMasterUpload(sbUploads, nextUpload)
          /\ sbOceanData' = sb_saveMasterList(sbOceanData, rows, idSeq)
          /\ idSeq' = idSeq + Len(rows)
          /\ call' = [op |-> "updateMasterList", uploadId |-> uploadId,
                      rows |-> rows, ret |-> Ret(0, Len(rows), 0)]
          /\ UNCHANGED lsMasterList
    /\ UNCHANGED <<backend, nextUpload, lsUploads, lsReportData, dash>>

updateMasterList ==
    \E uploadId \in ExistingIds, rows \in Batches : updateMasterListOf(uploadId, rows)

Next == saveUpload \/ deleteUpload \/ saveReportData \/ updateMasterList

Spec == Init /\ [][Next]_vars

\* the reconciler alone: uploads are created and reconciled into the master list
NextMaster == saveUpload \/ updateMasterList

SpecMaster == Init /\ [][NextMaster]_vars

\* the snapshot store alone: uploads are created, filled and deleted.  The diff
\* engine reads stored snapshots only, and a write that throws stores nothing
\* (SpecStore has it), so the writes here are the ones that return.
NextDiff == saveUpload \/ deleteUpload \/ saveReportDataReturns

SpecDiff == Init /\ [][NextDiff]_vars

\* the ingestion of a file: its upload is created
createFile == nextUpload < MaxFiles /\ saveUpload

\* the ingestion of a file: the rows are stored under the upload just created
storeFile == call.op = "saveUpload" /\ saveReportData

\* the ingestion of a file: the rows just stored are reconciled into the master list
reconcileFile ==
    /\ call.op = "saveReportData"
    /\ ~call.threw
    /\ call.uploadId \in ExistingIds
    /\ updateMasterListOf(call.uploadId, call.rows)

\* both stores together: files are ingested and uploads are deleted
NextStore == createFile \/ deleteUpload \/ storeFile \/ reconcileFile

SpecStore == Init /\ [][NextStore]_vars


(***************************************************************************)
(* Vocabulary of the claims.                                               *)
(***************************************************************************)
\* the rows of a batch that carry a usable key
UsableIdx(rows) == { i \in DOMAIN rows : Truthy(normalizeHB(rows[i].HB)) }

\* the usable keys of a batch
BatchKeys(rows) == { normalizeHB(rows[i].HB) : i \in UsableIdx(rows) }

\* the normalized key of a master-list entry
EntryKey(e) == normalizeHB(e.hb)

\* the keys of the entries of a master list
MasterKeysOf(ml) == { EntryKey(ml[i]) : i \in DOMAIN ml }

MasterKeys == MasterKeysOf(getMasterList)

\* a master list as the reconciler contract sees it: key and field values per entry
CatalogViewOf(b, ml) ==
    { [hb |-> ml[i].hb, frl |-> IF b = "local" THEN ml[i].frl ELSE ml[i].frl_date] :
        i \in DOMAIN ml }

\* the last call was updateMasterList
Reconciled == call.op = "updateMasterList"

(***************************************************************************)
(* C1.  After any sequence of updateMasterList calls, on either backend    *)
(* and also for batches that repeat an HB, the master list holds at most   *)
(* one entry per normalized HB key.                                        *)
(***************************************************************************)
C1_KeyUniqueness ==
    \A i, j \in DOMAIN getMasterList :
        (i # j /\ Truthy(EntryKey(getMasterList[i])))
            => EntryKey(getMasterList[i]) # EntryKey(getMasterList[j])

(***************************************************************************)
(* C2.  A master-list entry is never removed by a later ingestion: the set *)
(* of master-list keys only grows from one call to the next (stated for    *)
(* the usable keys).                                                       *)
(***************************************************************************)
C2_KeysOnlyGrow ==
    [][{ k \in MasterKeys : Truthy(k) } \subseteq
          MasterKeysOf(masterListOf(backend', lsMasterList', sbOceanData'))]_vars


(***************************************************************************)
(* C3.  updateMasterList(uploadId, rows) of the localStorage backend: a    *)
(* row whose key is absent is inserted with first_seen_upload_id =         *)
(* uploadId and counted in itemsAdded; a row whose key is present          *)
(* overwrites the entry's fields, also a populated field by an empty one,  *)
(* sets last_updated_upload_id = uploadId and is counted in itemsUpdated;  *)
(* itemsAdded + itemsUpdated is the number of rows with a usable key.      *)
(***************************************************************************)
\* the last row of the batch that carries key k
LastRowWith(rows, k) ==
    rows[CHOOSE i \in UsableIdx(rows) :
            /\ normalizeHB(rows[i].HB) = k
            /\ \A j \in UsableIdx(rows) : normalizeHB(rows[j].HB) = k => j <= i]

\* the entry of master list ml stored under key k
EntryAt(ml, k) == ml[CHOOSE i \in DOMAIN ml : ml[i].hb = k]

KeysOf(ml) == { ml[i].hb : i \in DOMAIN ml }

C3_ReconcileStep ==
    (backend = "local" /\ nUpdates' = nUpdates + 1) =>
        LET rows == call'.rows
            uploadId == call'.uploadId
            old == lsMasterList
            new == lsMasterList'
            fresh == BatchKeys(rows) \ KeysOf(old)
        IN  /\ \A k \in BatchKeys(rows) :
                /\ k \in KeysOf(new)
                /\ EntryAt(new, k).frl = OrNull(LastRowWith(rows, k).FRL)
                /\ EntryAt(new, k).last_updated_upload_id = uploadId
                /\ k \in fresh => EntryAt(new, k).first_seen_upload_id = uploadId
                /\ k \notin fresh =>
                      /\ EntryAt(new, k).first_seen_upload_id
                            = EntryAt(old, k).first_seen_upload_id
                      /\ EntryAt(new, k).id = EntryAt(old, k).id
            /\ call'.ret.itemsAdded = Cardinality(fresh)
            /\ call'.ret.itemsUpdated = Cardinality(UsableIdx(rows)) - Cardinality(fresh)
            /\ call'.ret.itemsAdded + call'.ret.itemsUpdated = Cardinality(UsableIdx(rows))

C3_Reconcile == [][C3_ReconcileStep]_vars

\* one call inserted a key and then overwrote its populated FRL with an empty one
C3_Witness ==
    /\ backend = "local"
    /\ Reconciled
    /\ call.ret.itemsAdded >= 1
    /\ call.ret.itemsUpdated >= 1
    /\ \E i, j \in UsableIdx(call.rows) :
          /\ i < j
          /\ normalizeHB(call.rows[i].HB) = normalizeHB(call.rows[j].HB)
          /\ Truthy(call.rows[i].FRL)
          /\ ~Truthy(call.rows[j].FRL)
          /\ EntryAt(lsMasterList, normalizeHB(call.rows[j].HB)).frl = NULL

(***************************************************************************)
(* C4.  Reconciling the same batch twice is idempotent on the catalog: on  *)
(* an empty catalog the first call reports added = number of distinct      *)
(* keys; the second call reports added = 0 and updated > 0 and leaves the  *)
(* catalog with the same keys and the same field values.                   *)
(***************************************************************************)
C4_IdempotentStep ==
    /\ (nUpdates = 0 /\ nUpdates' = 1)
            => call'.ret.itemsAdded = Cardinality(BatchKeys(call'.rows))
    /\ (/\ Reconciled
        /\ nUpdates' = nUpdates + 1
        /\ call'.rows = call.rows
        /\ call'.uploadId = call.uploadId
        /\ UsableIdx(call.rows) # {})
            => /\ call'.ret.itemsAdded = 0
               /\ call'.ret.itemsUpdated > 0
               /\ LET after == masterListOf(backend', lsMasterList', sbOceanData')
                  IN  /\ CatalogViewOf(backend, after) = CatalogViewOf(backend, getMasterList)
                      /\ Len(after) = Len(getMasterList)

C4_Idempotent == [][C4_IdempotentStep]_vars

(***************************************************************************)
(* C5.  A row whose normalized HB is empty is skipped by the reconciler:   *)
(* it creates no master-list entry and is counted neither in itemsAdded    *)
(* nor in itemsUpdated.                                                    *)
(***************************************************************************)
C5_EmptyKeySkipped ==
    /\ \A i \in DOMAIN getMasterList : Truthy(EntryKey(getMasterList[i]))
    /\ Reconciled =>
          call.ret.itemsAdded + call.ret.itemsUpdated = Cardinality(UsableIdx(call.rows))

(***************************************************************************)
(* Vocabulary of the diff claims.  Ids are handed out in creation order,   *)
(* so the uploads created before u are the existing ones with a smaller id.*)
(***************************************************************************)
\* the uploads the store holds (the row that owns the master list is not one)
StoredUploadIds ==
    IF backend = "local" THEN { lsUploads[i].id : i \in DOMAIN lsUploads }
    ELSE { u.upload_id : u \in sbUploads } \ { MASTER }

OlderIds(u) == { v \in StoredUploadIds : v < u }

HasPredecessor(u) == OlderIds(u) # {}

\* the existing upload created most recently before u
Predecessor(u) == CHOOSE v \in OlderIds(u) : \A w \in OlderIds(u) : w <= v

\* the keys of a sequence of records, the empty key included
KeysOfRecords(rows) == { rows[i].hb : i \in DOMAIN rows }

\* the records of a sequence that carry a non-empty key
UsableRecords(rows) == { i \in DOMAIN rows : Truthy(rows[i].hb) }

(***************************************************************************)
(* C6, as stated.  For an upload B with predecessor A, getNewItemsData(B)  *)
(* is exactly the records of snapshot B whose key is not a key of snapshot *)
(* A, and getRemovedItemsData(B) is exactly the records of snapshot A      *)
(* whose key is not a key of snapshot B.                                   *)
(***************************************************************************)
C6_Original ==
    \A B \in StoredUploadIds :
        HasPredecessor(B) =>
            LET rowsA == getReportData(Predecessor(B))
                rowsB == getReportData(B)
            IN  /\ getNewItemsData(B) =
                      Filter(rowsB, { i \in DOMAIN rowsB :
                                        rowsB[i].hb \notin KeysOfRecords(rowsA) })
                /\ getRemovedItemsData(B) =
                      Filter(rowsA, { i \in DOMAIN rowsA :
                                        rowsA[i].hb \notin KeysOfRecords(rowsB) })

(***************************************************************************)
(* C6, amended.  For an upload B with predecessor A, getNewItemsData(B) is *)
(* exactly the records of snapshot B whose key is non-empty and not a key  *)
(* of snapshot A, and getRemovedItemsData(B) is exactly the records of     *)
(* snapshot A whose key is non-empty and not a key of snapshot B.          *)
(***************************************************************************)
C6_NewAndRemoved ==
    \A B \in StoredUploadIds :
        HasPredecessor(B) =>
            LET rowsA == getReportData(Predecessor(B))
                rowsB == getReportData(B)
            IN  /\ getNewItemsData(B) =
                      Filter(rowsB, { i \in UsableRecords(rowsB) :
                                        rowsB[i].hb \notin KeysOfRecords(rowsA) })
                /\ getRemovedItemsData(B) =
                      Filter(rowsA, { i \in UsableRecords(rowsA) :
                                        rowsA[i].hb \notin KeysOfRecords(rowsB) })

\* an upload whose comparison with its predecessor finds a new and a removed record
C6_Witness ==
    \E B \in StoredUploadIds :
        /\ HasPredecessor(B)
        /\ getReportData(Predecessor(B)) # <<>>
        /\ getNewItemsData(B) # <<>>
        /\ getRemovedItemsData(B) # <<>>

(***************************************************************************)
(* C7.  For the oldest existing upload (no predecessor) getNewItemsData    *)
(* returns every record of its snapshot, detectNewItems returns the        *)
(* snapshot's record count, getRemovedItemsData returns the empty list and *)
(* detectRemovedItems returns 0.                                           *)
(***************************************************************************)
C7_NoPredecessor ==
    \A u \in StoredUploadIds :
        ~HasPredecessor(u) =>
            /\ getNewItemsData(u) = getReportData(u)
            /\ detectNewItems(u) = Len(getReportData(u))
            /\ getRemovedItemsData(u) = <<>>
            /\ detectRemovedItems(u) = 0

\* the oldest upload holds two records, one without a key, and a newer upload exists
C7_Witness ==
    \E u \in StoredUploadIds :
        /\ ~HasPredecessor(u)
        /\ \E v \in StoredUploadIds : v > u
        /\ Len(getReportData(u)) = 2
        /\ UsableRecords(getReportData(u)) # DOMAIN getReportData(u)
        /\ detectNewItems(u) = 2

(***************************************************************************)
(* C8.  For every upload, with or without a predecessor, a snapshot record *)
(* whose key is empty never appears in getNewItemsData or                  *)
(* getRemovedItemsData and is not counted by detectNewItems or             *)
(* detectRemovedItems.                                                     *)
(***************************************************************************)
C8_EmptyKeyExcluded ==
    \A u \in StoredUploadIds :
        /\ UsableRecords(getNewItemsData(u)) = DOMAIN getNewItemsData(u)
        /\ UsableRecords(getRemovedItemsData(u)) = DOMAIN getRemovedItemsData(u)
        /\ detectNewItems(u) <= Cardinality(UsableRecords(getReportData(u)))
        /\ HasPredecessor(u) =>
              detectRemovedItems(u)
                  <= Cardinality(UsableRecords(getReportData(Predecessor(u))))

(***************************************************************************)
(* C9.  The count variants agree with the record variants: for every       *)
(* upload, detectNewItems(u) is the number of records getNewItemsData(u)   *)
(* returns and detectRemovedItems(u) is the number of records              *)
(* getRemovedItemsData(u) returns, also when a key occurs on several       *)
(* records.                                                                *)
(***************************************************************************)
C9_CountsAgree ==
    \A u \in StoredUploadIds :
        /\ detectNewItems(u) = Len(getNewItemsData(u))
        /\ detectRemovedItems(u) = Len(getRemovedItemsData(u))

(***************************************************************************)
(* C10.  After any sequence of saveUpload and deleteUpload calls,          *)
(* getAllUploads returns exactly the existing uploads, newest first, and   *)
(* the upload the diff engine compares U with is the existing upload       *)
(* created most recently before U; U has no previous upload exactly when   *)
(* no older upload exists.                                                 *)
(***************************************************************************)
C10_NewestFirst ==
    /\ ExistingIds = StoredUploadIds
    /\ \A i, j \in DOMAIN getAllUploads :
          i < j => getAllUploads[i].id > getAllUploads[j].id
    /\ call.op = "saveUpload" => getAllUploads[1].id = call.uploadId
    /\ call.op = "deleteUpload" => call.uploadId \notin ExistingIds
    /\ \A u \in StoredUploadIds :
          /\ NoPrevious(getAllUploads, u) <=> ~HasPredecessor(u)
          /\ HasPredecessor(u) => PrevUploadId(getAllUploads, u) = Predecessor(u)

\* the intermediate upload was deleted: the newest is compared with the oldest
C10_Witness ==
    /\ call.op = "deleteUpload"
    /\ call.uploadId = 2
    /\ StoredUploadIds = {1, 3}
    /\ ~NoPrevious(getAllUploads, 3)
    /\ PrevUploadId(getAllUploads, 3) = 1

(***************************************************************************)
(* Vocabulary of the store claims: the stores read with explicit state     *)
(* arguments, so that a step can compare them before and after.            *)
(***************************************************************************)
\* the ids of the uploads a store holds
UploadIdsOf(b, uploads, sbUp) ==
    IF b = "local" THEN { uploads[i].id : i \in DOMAIN uploads }
    ELSE { u.upload_id : u \in sbUp } \ { MASTER }

\* every stored record of upload u, whatever its status
RecordsOf(b, reportData, oceanData, u) ==
    IF b = "local" THEN localDB_getReportData(reportData, u)
    ELSE sb_rowsOf(oceanData, u)

\* what getReportData(u) returns from a store
ReportDataOf(b, reportData, oceanData, u) ==
    IF b = "local" THEN localDB_getReportData(reportData, u)
    ELSE sb_getReportData(oceanData, u)

(***************************************************************************)
(* C11.  deleteUpload(u) removes upload u and every snapshot record whose  *)
(* upload_id is u, and leaves unchanged every other upload, every snapshot *)
(* record of the other uploads and every master-list entry, also the       *)
(* entries first seen or last updated in u.                                *)
(***************************************************************************)
C11_DeleteStep ==
    call'.op = "deleteUpload" =>
        LET u == call'.uploadId
        IN  /\ u \in StoredUploadIds
            /\ UploadIdsOf(backend', lsUploads', sbUploads') = StoredUploadIds \ {u}
            /\ \A i \in DOMAIN lsUploads' : \E j \in DOMAIN lsUploads : lsUploads'[i] = lsUploads[j]
            /\ sbUploads' \subseteq sbUploads
            /\ \A v \in 1..nextUpload :
                  RecordsOf(backend', lsReportData', sbOceanData', v) =
                      IF v = u THEN <<>> ELSE RecordsOf(backend, lsReportData, sbOceanData, v)
            /\ masterListOf(backend', lsMasterList', sbOceanData') = getMasterList
            /\ lsMasterList' = lsMasterList

C11_DeleteFrame == [][C11_DeleteStep]_vars

\* an upload was deleted after its file was reconciled: the master list still
\* holds what it holds, and another upload still has its records
C11_Witness ==
    /\ call.op = "deleteUpload"
    /\ getMasterList # <<>>
    /\ nUpdates >= 1
    /\ \E v \in StoredUploadIds : v # call.uploadId /\ getReportData(v) # <<>>

(***************************************************************************)
(* C12.  Snapshot records are immutable: what getReportData(u) returns     *)
(* stays the same over every later saveUpload, saveReportData for another  *)
(* upload, updateMasterList and deleteUpload of another upload.            *)
(***************************************************************************)
C12_SnapshotStep ==
    \A u \in StoredUploadIds :
        (/\ ~(call'.op = "deleteUpload" /\ call'.uploadId = u)
         /\ ~(call'.op = "saveReportData" /\ call'.uploadId = u))
            => ReportDataOf(backend', lsReportData', sbOceanData', u) = getReportData(u)

C12_SnapshotImmutable == [][C12_SnapshotStep]_vars

(***************************************************************************)
(* csvUtils.js: the CSV utilities.  The repository holds two texts of      *)
(* them: src/lib/csvUtils.js, and the utilities at the end of              *)
(* src/lib/database.js, whose normalizeHB is the one of localDatabase.js.  *)
(***************************************************************************)
UpperCase == <<"A", "B", "C", "D", "E", "F", "G", "H", "I", "J", "K", "L", "M",
               "N", "O", "P", "Q", "R", "S", "T", "U", "V", "W", "X", "Y", "Z">>

LowerCase == <<"a", "b", "c", "d", "e", "f", "g", "h", "i", "j", "k", "l", "m",
               "n", "o", "p", "q", "r", "s", "t", "u", "v", "w", "x", "y", "z">>

LowerChar(c) ==
    IF \E i \in DOMAIN UpperCase : UpperCase[i] = c
    THEN LowerCase[CHOOSE i \in DOMAIN UpperCase : UpperCase[i] = c]
    ELSE c

\* String.prototype.toLowerCase
toLowerCase(s) == [i \in DOMAIN s |-> LowerChar(s[i])]

NaN == [ok |-> FALSE, neg |-> FALSE, mant |-> <<>>, frac |-> 0, exp |-> 0]

\* parseFloat, the exponent part: e or E, an optional sign and digits; an
\* exponent without digits is not part of the number
PfExponent(neg, int, frac, s4) ==
    [ok   |-> TRUE,
     neg  |-> neg,
     mant |-> int \o frac,
     frac |-> Len(frac),
     exp  |-> IF StartsWith(s4, {"e", "E"}) /\ DigitRun(Skip(Tail(s4), {"+", "-"})) >= 1
              THEN (IF StartsWith(Tail(s4), {"-"}) THEN 0 - 1 ELSE 1) *
                   DigitsVal(SubSeq(Skip(Tail(s4), {"+", "-"}), 1,
                                    DigitRun(Skip(Tail(s4), {"+", "-"}))))
              ELSE 0]

\* parseFloat, the digits after the point
PfFraction(neg, int, s3) ==
    IF int = <<>> /\ DigitRun(s3) = 0 THEN NaN
    ELSE PfExponent(neg, int, SubSeq(s3, 1, DigitRun(s3)), Drop(s3, DigitRun(s3)))

\* parseFloat, the digits before the point; without a point there is no fraction
PfInteger(neg, s1) ==
    IF StartsWith(Drop(s1, DigitRun(s1)), {"."})
    THEN PfFraction(neg, SubSeq(s1, 1, DigitRun(s1)), Tail(Drop(s1, DigitRun(s1))))
    ELSE IF DigitRun(s1) = 0 THEN NaN
    ELSE PfExponent(neg, SubSeq(s1, 1, DigitRun(s1)), <<>>, Drop(s1, DigitRun(s1)))

\* parseFloat(s): the longest prefix of s, after leading white space, that is a
\* decimal literal; NaN when there is none
parseFloat(s) ==
    PfInteger(StartsWith(TrimLeft(s), {"-"}), Skip(TrimLeft(s), {"+", "-"}))

\* csvUtils.js normalizeHB: parseFloat on every value
csvUtils_normalizeNum(value, num) ==
    IF num.ok THEN IntToStr(FloorOfSci(num)) ELSE Trim(value)

csvUtils_normalizeHB(value) ==
    IF value = NULL \/ value = EMPTY THEN EMPTY
    ELSE csvUtils_normalizeNum(value, parseFloat(value))

\* cleanData, the map: every string value trimmed
TrimValue(v) == IF v = NULL THEN NULL ELSE Trim(v)

\* x && x !== '' && x.toLowerCase() !== 'nan'
HasValue(x) == Truthy(x) /\ toLowerCase(x) # <<"n", "a", "n">>

\* cleanData of database.js, the map
cleanRow(row) ==
    [CONTAINER |-> TrimValue(row.CONTAINER),
     HB        |-> normalizeHB(TrimValue(row.HB)),
     MBL       |-> TrimValue(row.MBL)]

\* cleanData of database.js: a row is kept if it has a container, an HB or an MBL
cleanData(data) ==
    LET cleaned == [i \in DOMAIN data |-> cleanRow(data[i])]
    IN  Filter(cleaned, { i \in DOMAIN cleaned :
                            \/ HasValue(cleaned[i].CONTAINER)
                            \/ HasValue(cleaned[i].HB)
                            \/ HasValue(cleaned[i].MBL) })

\* cleanData of csvUtils.js, the map
csvUtils_cleanRow(row) ==
    [CONTAINER |-> TrimValue(row.CONTAINER),
     HB        |-> csvUtils_normalizeHB(TrimValue(row.HB)),
     MBL       |-> TrimValue(row.MBL)]

\* cleanData of csvUtils.js: a row is kept if it has a container
csvUtils_cleanData(data) ==
    LET cleaned == [i \in DOMAIN data |-> csvUtils_cleanRow(data[i])]
    IN  Filter(cleaned, { i \in DOMAIN cleaned : HasValue(cleaned[i].CONTAINER) })

\* REQUIRED_COLUMNS
REQUIRED_COLUMNS ==
    <<"CONTAINER", "SEAL #", "CARRIER", "MBL", "MI", "VESSEL", "HB",
      "OUTER QUANTITY", "PCS", "WT_LBS", "CNEE", "FRL", "FILE_NO",
      "DEST", "VOLUME", "VBOND#", "TDF">>

\* a validation that rejects a file with a column it does not know
validateColumns_Strict(headers) ==
    LET missingColumns ==
            Filter(REQUIRED_COLUMNS,
                   { i \in DOMAIN REQUIRED_COLUMNS :
                       \A j \in DOMAIN headers : headers[j] # REQUIRED_COLUMNS[i] })
        unknown == \E j \in DOMAIN headers :
                      \A i \in DOMAIN REQUIRED_COLUMNS : headers[j] # REQUIRED_COLUMNS[i]
    IN  [isValid |-> missingColumns = <<>> /\ ~unknown, missingColumns |-> missingColumns]

\* validateColumns(headers): { isValid, missingColumns }; the message is the
\* missing columns joined and is left out
validateColumns(headers) ==
    LET missingColumns ==
            Filter(REQUIRED_COLUMNS,
                   { i \in DOMAIN REQUIRED_COLUMNS :
                       \A j \in DOMAIN headers : headers[j] # REQUIRED_COLUMNS[i] })
    IN  [isValid |-> missingColumns = <<>>, missingColumns |-> missingColumns]

(***************************************************************************)
(* Inputs of the CSV utilities.                                            *)
(***************************************************************************)
\* largest exponent of a scientific-notation input
MaxExp == 2
\* required columns a header line lacks
MaxMissing == 2

ContainerCells == { NULL, <<"N", "a", "N">>, <<"C">> }

HBCells == { EMPTY, <<"n", "a", "n">>, <<" ", "1", "E", "1", " ">> }

MBLCells == { EMPTY, <<"M">> }

CsvRows == [CONTAINER : ContainerCells, HB : HBCells, MBL : MBLCells]

CsvBatches == SeqsUpTo(CsvRows, MaxRows) \ { <<>> }

\* values in scientific notation: sign, mantissa, e or E, sign, exponent
SciValues ==
    { sg \o m \o e \o es \o NatToStr(x) :
        sg \in { <<>>, <<"-">> },
        m \in { <<"0">>, <<"1">>, <<"1", "5">>, <<"1", ".">>, <<"1", ".", "5">>,
                <<"6", ".", "1", "7">> },
        e \in { <<"E">>, <<"e">> },
        es \in { <<>>, <<"+">>, <<"-">> },
        x \in 0..MaxExp }

\* values that are not in scientific notation
PlainValues ==
    { <<"6", "2", "R", "0", "5">>, <<"A">>, <<"1", "2">>, <<"1", ".", "5">>,
      <<"-", "7">>, <<"1", "E">>, <<"E", "1">>, <<".", "5", "E", "1">>,
      <<"1", "E", "1", "x">>, <<"1", "e", "+">>, <<"n", "a", "n">>, <<"A", " ", "B">> }

Padded(S) == S \cup { <<" ">> \o v \o <<" ">> : v \in S }

HBValues == { NULL, EMPTY, <<" ">> } \cup Padded(PlainValues) \cup Padded(SciValues)

RECURSIVE SubsetsUpTo(_, _)
SubsetsUpTo(S, n) ==
    IF n = 0 THEN { {} }
    ELSE LET smaller == SubsetsUpTo(S, n - 1)
         IN  smaller \cup { t \cup {x} : t \in smaller, x \in S }

ExtraHeaders == { <<>>, <<"EXTRA">>, <<"hb">>, <<"EXTRA", "hb">> }

\* header lines: the required columns but some, and columns that are not required
HeaderInputs ==
    ExtraHeaders \cup
    { Filter(REQUIRED_COLUMNS, DOMAIN REQUIRED_COLUMNS \ missing) \o extra :
        missing \in SubsetsUpTo(DOMAIN REQUIRED_COLUMNS, MaxMissing),
        extra \in ExtraHeaders }

(***************************************************************************)
(* The CSV utilities are pure: a call changes no store and its result      *)
(* depends on no earlier call, so a behaviour is one call.  `call` holds   *)
(* the arguments and the result.                                           *)
(***************************************************************************)
Stores == <<backend, nextUpload, idSeq, nUpdates, nRows, lsUploads, lsReportData,
            lsMasterList, sbUploads, sbOceanData>>

cleanDataCall ==
    \E lib \in {"database", "csvUtils"}, data \in CsvBatches :
        /\ call = NoCall
        /\ call' = [op |-> "cleanData", lib |-> lib, data |-> data,
                    result |-> IF lib = "database" THEN cleanData(data)
                               ELSE csvUtils_cleanData(data)]
        /\ UNCHANGED <<Stores, dash>>

\* normalizeHB(value), and the result normalized once more: by the same
\* function, and by the normalizeHB of the store that receives a cleaned row
normalizeHBCall ==
    \E lib \in {"database", "csvUtils"}, value \in HBValues :
        /\ call = NoCall
        /\ call' = [op |-> "normalizeHB", lib |-> lib, value |-> value,
                    result |-> IF lib = "database" THEN normalizeHB(value)
                               ELSE csvUtils_normalizeHB(value),
                    again  |-> IF lib = "database" THEN normalizeHB(normalizeHB(value))
                               ELSE csvUtils_normalizeHB(csvUtils_normalizeHB(value)),
                    stored |-> IF lib = "database" THEN normalizeHB(normalizeHB(value))
                               ELSE normalizeHB(csvUtils_normalizeHB(value))]
        /\ UNCHANGED <<Stores, dash>>

validateColumnsCall ==
    \E headers \in HeaderInputs :
        /\ call = NoCall
        /\ call' = [op |-> "validateColumns", headers |-> headers,
                    result |-> validateColumns(headers)]
        /\ UNCHANGED <<Stores, dash>>

NextCsv == cleanDataCall \/ normalizeHBCall \/ validateColumnsCall

SpecCsv == Init /\ [][NextCsv]_vars

(***************************************************************************)
(* C13.  cleanData keeps a row iff at least one of CONTAINER, HB (after    *)
(* normalization) or MBL is non-empty and not 'nan' in any case: a row     *)
(* with only the container, only the HB or only the MBL is kept, and a row *)
(* is dropped only when all three are empty or 'nan'.                      *)
(***************************************************************************)
\* the value is there: not empty once trimmed, and not 'nan'
Present(v) == v # NULL /\ Trim(v) # EMPTY /\ toLowerCase(Trim(v)) # <<"n", "a", "n">>

KeptRows(data) ==
    { i \in DOMAIN data :
        \/ Present(data[i].CONTAINER)
        \/ Present(normalizeHB(data[i].HB))
        \/ Present(data[i].MBL) }

C13_CleanDataKeeps ==
    call.op = "cleanData" =>
        /\ Len(call.result) = Cardinality(KeptRows(call.data))
        /\ Filter([i \in DOMAIN call.data |-> TrimValue(call.data[i].CONTAINER)],
                  KeptRows(call.data))
              = [i \in DOMAIN call.result |-> call.result[i].CONTAINER]

(***************************************************************************)
(* Vocabulary of the normalizeHB claims.                                   *)
(***************************************************************************)
\* the value is in scientific notation: optional sign, digits, optional
\* decimal point and digits, e or E, optional sign, digits
InScientificNotation(s) == SciParts(s).ok

\* the value m * 10^k with its fractional part dropped
TruncScaled(neg, m, k) ==
    IF k >= 0 THEN (IF neg THEN 0 - m * Pow10(k) ELSE m * Pow10(k))
    ELSE IF neg THEN 0 - (m \div Pow10(0 - k))
    ELSE m \div Pow10(0 - k)

TruncOfSci(p) == TruncScaled(p.neg, DigitsVal(p.mant), p.exp - p.frac)

(***************************************************************************)
(* C14.  normalizeHB returns the empty string for null, undefined or empty *)
(* input, and returns every input that is not in scientific notation       *)
(* trimmed and otherwise unchanged; an identifier that starts with digits  *)
(* is not parsed as a number.                                              *)
(***************************************************************************)
C14_PlainUnchanged ==
    call.op = "normalizeHB" =>
        /\ call.value \in { NULL, EMPTY } => call.result = EMPTY
        /\ (call.value \notin { NULL, EMPTY } /\ ~InScientificNotation(Trim(call.value)))
              => call.result = Trim(call.value)

(***************************************************************************)
(* C15.  For an input in scientific notation normalizeHB returns the       *)
(* decimal string of the value truncated toward zero, for positive and for *)
(* negative values alike.                                                  *)
(***************************************************************************)
C15_TruncatesTowardZero ==
    (/\ call.op = "normalizeHB"
     /\ call.lib = "database"
     /\ call.value # NULL
     /\ InScientificNotation(Trim(call.value)))
        => call.result = IntToStr(TruncOfSci(SciParts(Trim(call.value))))

(***************************************************************************)
(* C16.  normalizeHB is idempotent: normalizing a normalized key again, by *)
(* the same function or by the one of the store that receives the cleaned  *)
(* row, leaves it unchanged.                                               *)
(***************************************************************************)
C16_Idempotent ==
    call.op = "normalizeHB" =>
        /\ call.again = call.result
        /\ call.stored = call.result

\* a padded value in scientific notation, which normalization rewrites
C16_Witness ==
    /\ call.op = "normalizeHB"
    /\ call.lib = "database"
    /\ call.value # NULL
    /\ call.value # Trim(call.value)
    /\ InScientificNotation(Trim(call.value))
    /\ call.result \notin { EMPTY, Trim(call.value) }
    /\ call.again = call.result

(***************************************************************************)
(* C17.  validateColumns(headers) returns isValid = true iff every one of  *)
(* the 17 required columns occurs in headers; missingColumns is exactly    *)
(* the set of required columns not in headers; headers that are not        *)
(* required columns never affect the result.                               *)
(***************************************************************************)
Elements(q) == { q[i] : i \in DOMAIN q }

LastUpdateReason(m) ==
    IF "last_update_reason" \in DOMAIN m THEN m.last_update_reason ELSE NULL

\* s.includes(sub)
Includes(s, sub) ==
    \E i \in 1..(Len(s) - Len(sub) + 1) : SubSeq(s, i, i + Len(sub) - 1) = sub

\* getLatestUploadId(): uploads[0].id, or null (0) without uploads
localDB_getLatestUploadId(uploads) ==
    IF Len(uploads) > 0 THEN uploads[1].id ELSE 0

localDB_getMasterListUpdatedItems(uploads, masterList) ==
    IF localDB_getLatestUploadId(uploads) = 0 THEN <<>>
    ELSE Filter(masterList,
                { i \in DOMAIN masterList :
                    /\ masterList[i].last_updated_upload_id = localDB_getLatestUploadId(uploads)
                    /\ Truthy(LastUpdateReason(masterList[i])) })

localDB_getMasterListNewFrl(uploads, masterList) ==
    IF localDB_getLatestUploadId(uploads) = 0 THEN <<>>
    ELSE Filter(masterList,
                { i \in DOMAIN masterList :
                    /\ masterList[i].last_updated_upload_id = localDB_getLatestUploadId(uploads)
                    /\ Truthy(LastUpdateReason(masterList[i]))
                    /\ Includes(LastUpdateReason(masterList[i]), <<"F", "R", "L">>) })

(***************************************************************************)
(* C18.  When updateMasterList updates an existing entry whose FRL was     *)
(* empty with a row whose FRL is non-empty, the entry gets a               *)
(* last_update_reason naming FRL, so that, while that upload is the latest *)
(* one, getMasterListNewFrl and getMasterListUpdatedItems return the entry.*)
(***************************************************************************)
C18_ReasonStep ==
    (backend = "local" /\ nUpdates' = nUpdates + 1) =>
        \A i \in DOMAIN lsMasterList :
            (/\ ~Truthy(lsMasterList[i].frl)
             /\ lsMasterList[i].hb \in BatchKeys(call'.rows)
             /\ \A j \in UsableIdx(call'.rows) :
                    normalizeHB(call'.rows[j].HB) = lsMasterList[i].hb
                        => Truthy(call'.rows[j].FRL)
             /\ call'.uploadId = localDB_getLatestUploadId(lsUploads'))
            => /\ Includes(OrEmpty(LastUpdateReason(EntryAt(lsMasterList', lsMasterList[i].hb))),
                           <<"F", "R", "L">>)
               /\ lsMasterList[i].hb
                     \in KeysOf(localDB_getMasterListNewFrl(lsUploads', lsMasterList'))
               /\ lsMasterList[i].hb
                     \in KeysOf(localDB_getMasterListUpdatedItems(lsUploads', lsMasterList'))

C18_NewFrlReported == [][C18_ReasonStep]_vars

(***************************************************************************)
(* C19.  The localStorage backend and the Supabase backend are             *)
(* interchangeable: the same calls yield the same getReportData records    *)
(* per upload, the same master-list key set and the same { itemsAdded,     *)
(* itemsUpdated }.  Stated on the first snapshot written to an upload and  *)
(* on the first reconciliation, where the local results are a function of  *)
(* the arguments alone.                                                    *)
(***************************************************************************)
KeyColumn(records) == [i \in DOMAIN records |-> records[i].hb]

C19_SameResultsStep ==
    /\ (/\ call'.op = "saveReportData"
        /\ idSeq' # idSeq
        /\ RecordsOf(backend, lsReportData, sbOceanData, call'.uploadId) = <<>>)
        => KeyColumn(ReportDataOf(backend', lsReportData', sbOceanData', call'.uploadId))
             = KeyColumn(localDB_dataToInsert(call'.uploadId, call'.rows, 0))
    /\ (nUpdates = 0 /\ nUpdates' = 1)
        => LET r == localDB_updateMasterList(<<>>, call'.uploadId, call'.rows, 0)
           IN  /\ call'.ret.itemsAdded = r.itemsAdded
               /\ call'.ret.itemsUpdated = r.itemsUpdated
               /\ MasterKeysOf(masterListOf(backend', lsMasterList', sbOceanData'))
                     = KeysOf(r.masterList)

C19_Interchangeable == [][C19_SameResultsStep]_vars

(***************************************************************************)
(* C20.  A snapshot write is atomic per call: if saveReportData(u, rows)   *)
(* fails, no row of the batch is persisted and the stored snapshot records *)
(* are what they were before the call; if it succeeds, all rows are        *)
(* persisted and the returned count is the number of rows passed in.       *)
(***************************************************************************)
\* the step is a call of saveReportData
SaveReportDataStep ==
    call'.op = "saveReportData" /\ (call' # call \/ idSeq' # idSeq)

C20_AtomicStep ==
    SaveReportDataStep =>
        LET u == call'.uploadId
            rows == call'.rows
            before == RecordsOf(backend, lsReportData, sbOceanData, u)
            after == RecordsOf(backend', lsReportData', sbOceanData', u)
        IN  /\ \A v \in (1..nextUpload) \ {u} :
                  RecordsOf(backend', lsReportData', sbOceanData', v)
                      = RecordsOf(backend, lsReportData, sbOceanData, v)
            /\ call'.threw =>
                  /\ after = before
                  /\ lsReportData' = lsReportData
                  /\ sbOceanData' = sbOceanData
            /\ ~call'.threw =>
                  /\ Len(after) = Len(before) + Len(rows)
                  /\ SubSeq(after, 1, Len(before)) = before
                  /\ \A i \in DOMAIN rows :
                        normalizeHB(after[Len(before) + i].hb) = normalizeHB(rows[i].HB)
                  /\ call'.ret.n = Len(rows)

C20_AtomicWrite == [][C20_AtomicStep]_vars

\* the batch of a file failed while the records of an earlier file are stored
C20_Witness ==
    /\ call.op = "saveReportData"
    /\ call.threw
    /\ call.rows # <<>>
    /\ call.uploadId \in StoredUploadIds
    /\ getReportData(call.uploadId) = <<>>
    /\ \E v \in StoredUploadIds : getReportData(v) # <<>>

(***************************************************************************)
(* Reads with their failure outcome.  On Supabase a read that comes back   *)
(* with an error is logged and answered with []; on localStorage           *)
(* getStorage has no handler, so a failure (JSON.parse of a corrupt value) *)
(* rejects the call.                                                       *)
(***************************************************************************)
\* getStorage(key) inside an async function: the value, or a rejection
localDB_read(value, error) ==
    [threw |-> error, result |-> IF error THEN <<>> ELSE value]

\* const { data, error } = await supabase...; if (error) { ...; return []; } return data
sb_read(data, error) ==
    [threw |-> FALSE, result |-> IF error THEN <<>> ELSE data]

getReportDataOutcome(uploadId, error) ==
    IF backend = "local"
    THEN localDB_read(localDB_getReportData(lsReportData, uploadId), error)
    ELSE sb_read(sb_getReportData(sbOceanData, uploadId), error)

getAllUploadsOutcome(error) ==
    IF backend = "local" THEN localDB_read(lsUploads, error)
    ELSE sb_read(sb_getAllUploads(sbUploads), error)

getMasterListOutcome(error) ==
    IF backend = "local" THEN localDB_read(lsMasterList, error)
    ELSE sb_read(sb_getMasterList(sbOceanData), error)

ReadOps == { "getReportData", "getAllUploads", "getMasterList" }

\* a read changes no store; call holds the arguments and the outcome
getReportDataCall ==
    \E uploadId \in ExistingIds, error \in BOOLEAN :
        /\ call' = [op |-> "getReportData", uploadId |-> uploadId, error |-> error,
                    outcome |-> getReportDataOutcome(uploadId, error)]
        /\ UNCHANGED <<Stores, dash>>

getAllUploadsCall ==
    \E error \in BOOLEAN :
        /\ call' = [op |-> "getAllUploads", uploadId |-> 0, error |-> error,
                    outcome |-> getAllUploadsOutcome(error)]
        /\ UNCHANGED <<Stores, dash>>

getMasterListCall ==
    \E error \in BOOLEAN :
        /\ call' = [op |-> "getMasterList", uploadId |-> 0, error |-> error,
                    outcome |-> getMasterListOutcome(error)]
        /\ UNCHANGED <<Stores, dash>>

\* files are ingested, and the stores are read at any point
NextRead ==
    \/ createFile
    \/ storeFile
    \/ reconcileFile
    \/ getReportDataCall
    \/ getAllUploadsCall
    \/ getMasterListCall

SpecRead == Init /\ [][NextRead]_vars

(***************************************************************************)
(* C21.  A storage read failure is propagated to the caller: when the      *)
(* backend read behind getReportData, getAllUploads or getMasterList       *)
(* fails, the caller receives an error outcome that differs from a         *)
(* successful read of an empty record set.                                 *)
(***************************************************************************)
EmptyRead == [threw |-> FALSE, result |-> <<>>]

C21_ReadFailurePropagated ==
    (call.op \in ReadOps /\ call.error) =>
        /\ call.outcome.threw
        /\ call.outcome # EmptyRead

(***************************************************************************)
(* DataTable: the duplicate analyzer of the displayed rows.                *)
(***************************************************************************)
\* rows of the table at once
MaxViewRows == 3

\* counts[v]: the rows whose column holds v
Occurrences(data, column, v) ==
    Cardinality({ i \in DOMAIN data : data[i][column] = v })

\* the values that are counted: `v && v.trim() !== ''`
Counted(data, column) ==
    { data[i][column] : i \in { j \in DOMAIN data :
                                   /\ Truthy(data[j][column])
                                   /\ Trim(data[j][column]) # EMPTY } }

\* an analyzer that reports every counted value
duplicateValues_Counted(data, column) ==
    { k \in Counted(data, column) : Occurrences(data, column, k) >= 1 }

\* new Set(Object.keys(counts).filter(k => counts[k] > 1))
duplicateValues(data, column) ==
    { k \in Counted(data, column) : Occurrences(data, column, k) > 1 }

\* the useMemo of DataTable
duplicates(data) ==
    IF Len(data) = 0 THEN [hb |-> {}, mbl |-> {}]
    ELSE [hb |-> duplicateValues(data, "hb"), mbl |-> duplicateValues(data, "mbl")]

DupRows == [hb : { NULL, <<" ">>, <<"A">>, <<"B">> }, mbl : { EMPTY, <<"M">> }]

DupData == SeqsUpTo(DupRows, MaxViewRows)

duplicatesCall ==
    \E data \in DupData :
        /\ call = NoCall
        /\ call' = [op |-> "duplicates", data |-> data, result |-> duplicates(data)]
        /\ UNCHANGED <<Stores, dash>>

(***************************************************************************)
(* C22.  The duplicate analyzer returns, for each of the columns hb and    *)
(* mbl, exactly the values that are non-empty and not all-whitespace and   *)
(* occur on more than one record of the displayed rows; a value that       *)
(* occurs once, and empty or whitespace-only values, are never in the set. *)
(***************************************************************************)
AllWhitespace(v) == \A k \in DOMAIN v : v[k] = " "

OnSeveralRows(data, column) ==
    { data[i][column] : i \in { j \in DOMAIN data :
          /\ data[j][column] # NULL
          /\ ~AllWhitespace(data[j][column])
          /\ \E k \in DOMAIN data : k # j /\ data[k][column] = data[j][column] } }

C22_Duplicates ==
    call.op = "duplicates" =>
        /\ call.result.hb = OnSeveralRows(call.data, "hb")
        /\ call.result.mbl = OnSeveralRows(call.data, "mbl")

\* A is on two rows and B on one, and the empty mbl is on two rows
C22_Witness ==
    /\ call.op = "duplicates"
    /\ call.result.hb = { <<"A">> }
    /\ \E i \in DOMAIN call.data : call.data[i].hb = <<"B">>
    /\ Occurrences(call.data, "mbl", EMPTY) >= 2
    /\ call.result.mbl = {}

(***************************************************************************)
(* Dashboard: the FRL filters of the record set and the search over the    *)
(* loaded rows.                                                            *)
(***************************************************************************)
\* r.frl && r.frl.trim() !== ''
HasFrl(r) == Truthy(r.frl) /\ Trim(r.frl) # EMPTY

\* a filter whose without_frl takes only the rows with no FRL value at all
frlFilter_NoValue(data, filter) ==
    IF filter = "with_frl" THEN Filter(data, { i \in DOMAIN data : HasFrl(data[i]) })
    ELSE IF filter = "without_frl"
    THEN Filter(data, { i \in DOMAIN data : ~Truthy(data[i].frl) })
    ELSE data

\* the filter of getReportData(uploadId, filter) and getMasterListData(filter)
frlFilter(data, filter) ==
    IF filter = "with_frl" THEN Filter(data, { i \in DOMAIN data : HasFrl(data[i]) })
    ELSE IF filter = "without_frl"
    THEN Filter(data, { i \in DOMAIN data : ~Truthy(data[i].frl) \/ Trim(data[i].frl) = EMPTY })
    ELSE data

\* val && String(val).toLowerCase().includes(searchLower)
FieldIncludes(val, searchLower) ==
    Truthy(val) /\ Includes(toLowerCase(val), searchLower)

\* a search that compares the characters as they are
filteredData_CaseSensitive(data, searchText, searchField) ==
    IF Trim(searchText) = EMPTY THEN data
    ELSE Filter(data,
            { i \in DOMAIN data :
                IF searchField = "all"
                THEN \E f \in DOMAIN data[i] : Truthy(data[i][f]) /\ Includes(data[i][f], searchText)
                ELSE Truthy(data[i][searchField]) /\ Includes(data[i][searchField], searchText) })

\* the useMemo filteredData of Dashboard
filteredData(data, searchText, searchField) ==
    IF Trim(searchText) = EMPTY THEN data
    ELSE Filter(data,
            { i \in DOMAIN data :
                IF searchField = "all"
                THEN \E f \in DOMAIN data[i] :
                        FieldIncludes(data[i][f], toLowerCase(searchText))
                ELSE FieldIncludes(data[i][searchField], toLowerCase(searchText)) })

SearchRows == [hb : { <<"A", "b">>, <<"B">> }, frl : { NULL, <<"a", " ", "B">> }]

SearchData == SeqsUpTo(SearchRows, MaxViewRows)

SearchTexts ==
    { EMPTY, <<" ">>, <<"a">>, <<"A", "B">>, <<" ", "b">>, <<"n", "u", "l">> }

SearchFields == { "all", "hb", "frl" }

FrlFilters == { "all", "with_frl", "without_frl" }

\* the rows a filter loaded, searched
filteredDataCall ==
    \E records \in SearchData, filter \in FrlFilters,
       searchText \in SearchTexts, searchField \in SearchFields :
        /\ call = NoCall
        /\ call' = [op |-> "filteredData", records |-> records, filter |-> filter,
                    data |-> frlFilter(records, filter),
                    searchText |-> searchText, searchField |-> searchField,
                    result |-> filteredData(frlFilter(records, filter),
                                            searchText, searchField)]
        /\ UNCHANGED <<Stores, dash>>

(***************************************************************************)
(* C23.  Search composes after the named filter: the displayed rows are    *)
(* exactly the rows of the filter's record set that contain the search     *)
(* text as a case-insensitive substring, in any field when searchField is  *)
(* "all" or in the named field otherwise; the result is a subset of the    *)
(* filter's record set and equals it when the search text is empty or      *)
(* whitespace.                                                             *)
(***************************************************************************)
\* text occurs in value at position a, whatever the case of the letters
OccursAt(value, text, a) ==
    /\ a + Len(text) - 1 <= Len(value)
    /\ \A k \in DOMAIN text : LowerChar(value[a + k - 1]) = LowerChar(text[k])

Contains(value, text) ==
    value # NULL /\ \E a \in DOMAIN value : OccursAt(value, text, a)

RowContains(row, text, field) ==
    IF field = "all" THEN \E f \in DOMAIN row : Contains(row[f], text)
    ELSE Contains(row[field], text)

C23_SearchAfterFilter ==
    call.op = "filteredData" =>
        /\ call.result =
              IF AllWhitespace(call.searchText) THEN call.data
              ELSE Filter(call.data,
                      { i \in DOMAIN call.data :
                          RowContains(call.data[i], call.searchText, call.searchField) })
        /\ \A i \in DOMAIN call.result :
              \E j \in DOMAIN call.data : call.data[j] = call.result[i]
        /\ Len(call.result) <= Len(call.data)

\* a filter dropped a row, and the search, matching in another case, dropped one more
C23_Witness ==
    /\ call.op = "filteredData"
    /\ call.filter = "with_frl"
    /\ call.searchField = "hb"
    /\ call.searchText = <<"a">>
    /\ Len(call.data) < Len(call.records)
    /\ call.result # <<>>
    /\ Len(call.result) < Len(call.data)

(***************************************************************************)
(* The FRL filters and metrics of a snapshot and of the master list.       *)
(***************************************************************************)
\* getReportData(uploadId, filter) of localDatabase.js
localDB_getReportDataBy(reportData, uploadId, filter) ==
    frlFilter(localDB_getReportData(reportData, uploadId), filter)

\* getMasterListData(filter)
localDB_getMasterListData(masterList, filter) == frlFilter(masterList, filter)

\* getMasterListMetrics()
localDB_getMasterListMetrics(masterList) ==
    [totalRows  |-> Len(masterList),
     withFrl    |-> Cardinality({ i \in DOMAIN masterList : HasFrl(masterList[i]) }),
     withoutFrl |-> Len(masterList)
                      - Cardinality({ i \in DOMAIN masterList : HasFrl(masterList[i]) })]

\* loadUploadData: totalRows, withFrl, withoutFrl of the metrics
uploadFrlMetrics(reportData) ==
    [totalRows  |-> Len(reportData),
     withFrl    |-> Cardinality({ i \in DOMAIN reportData : HasFrl(reportData[i]) }),
     withoutFrl |-> Len(reportData)
                      - Cardinality({ i \in DOMAIN reportData : HasFrl(reportData[i]) })]

FrlRows == [upload_id : { 1, 2 }, frl : { NULL, <<" ">>, <<"F">> }]

FrlData == SeqsUpTo(FrlRows, MaxViewRows)

\* the three filters and the metrics, of upload 1 and of the master list, over
\* the same stored rows
frlFiltersCall ==
    \E records \in FrlData :
        /\ call = NoCall
        /\ call' = [op |-> "frlFilters", records |-> records,
                    snapshot |->
                        [f \in FrlFilters |-> localDB_getReportDataBy(records, 1, f)],
                    snapshotMetrics |->
                        uploadFrlMetrics(localDB_getReportDataBy(records, 1, "all")),
                    master |->
                        [f \in FrlFilters |-> localDB_getMasterListData(records, f)],
                    masterMetrics |-> localDB_getMasterListMetrics(records)]
        /\ UNCHANGED <<Stores, dash>>

(***************************************************************************)
(* C24.  The with_frl and without_frl filters partition the record set in  *)
(* snapshot and in master-list mode: every record returned by the 'all'    *)
(* filter is returned by exactly one of with_frl (FRL present and not      *)
(* whitespace) and without_frl, and the withFrl and withoutFrl metrics sum *)
(* to totalRows.                                                           *)
(***************************************************************************)
CountOf(q, r) == Cardinality({ i \in DOMAIN q : q[i] = r })

FrlPresent(r) == r.frl # NULL /\ ~AllWhitespace(r.frl)

\* byFilter["with_frl"] and byFilter["without_frl"] split byFilter["all"]
Partitioned(byFilter) ==
    /\ \A i \in DOMAIN byFilter["all"] :
          LET r == byFilter["all"][i]
          IN  /\ CountOf(byFilter["with_frl"], r) + CountOf(byFilter["without_frl"], r)
                    = CountOf(byFilter["all"], r)
              /\ CountOf(byFilter["with_frl"], r) = 0 \/ CountOf(byFilter["without_frl"], r) = 0
              /\ CountOf(byFilter["with_frl"], r) > 0 <=> FrlPresent(r)
    /\ Len(byFilter["with_frl"]) + Len(byFilter["without_frl"]) = Len(byFilter["all"])

MetricsAgree(metrics, byFilter) ==
    /\ metrics.totalRows = Len(byFilter["all"])
    /\ metrics.withFrl = Len(byFilter["with_frl"])
    /\ metrics.withoutFrl = Len(byFilter["without_frl"])
    /\ metrics.withFrl + metrics.withoutFrl = metrics.totalRows

C24_FrlPartition ==
    call.op = "frlFilters" =>
        /\ Partitioned(call.snapshot)
        /\ MetricsAgree(call.snapshotMetrics, call.snapshot)
        /\ Partitioned(call.master)
        /\ MetricsAgree(call.masterMetrics, call.master)

\* upload 1 has a row with an FRL, a row with a blank FRL and a row without
C24_Witness ==
    /\ call.op = "frlFilters"
    /\ Len(call.snapshot["with_frl"]) = 1
    /\ Len(call.snapshot["without_frl"]) = 2
    /\ \E i \in DOMAIN call.snapshot["without_frl"] :
          call.snapshot["without_frl"][i].frl = <<" ">>
    /\ \E i \in DOMAIN call.master["without_frl"] :
          call.master["without_frl"][i].frl = NULL
    /\ call.masterMetrics.withFrl = 1

(***************************************************************************)
(* Export of the displayed rows, and the ingestion of the exported file.   *)
(* A CSV row of the model carries the columns CONTAINER, HB and MBL.       *)
(***************************************************************************)
\* the keys of a stored record, in the order saveReportData writes them
StoredColumns ==
    <<"id", "upload_id", "container", "seal_number", "carrier", "mbl", "mi",
      "vessel", "hb", "outer_quantity", "pcs", "wt_lbs", "cnee", "frl",
      "file_no", "dest", "volume", "vbond", "tdf">>

\* the record saveReportData stores for a CSV row
localDB_storedRow(uploadId, row, id) ==
    [id        |-> id,
     upload_id |-> uploadId,
     container |-> OrNull(row.CONTAINER),
     mbl       |-> OrNull(row.MBL),
     hb        |-> normalizeHB(row.HB)]

localDB_storedRows(uploadId, rows, ids) ==
    [i \in DOMAIN rows |-> localDB_storedRow(uploadId, rows[i], ids + i)]

\* the text of a cell: null is written as the empty field
CellText(column, v) ==
    IF column \in { "id", "upload_id" } THEN NatToStr(v) ELSE OrEmpty(v)

\* Papa.unparse(data): the header line is the keys of the first object
exportToCSV(data) ==
    [fields |-> IF data = <<>> THEN <<>> ELSE StoredColumns,
     rows   |-> [i \in DOMAIN data |->
                    [c \in DOMAIN data[i] |-> CellText(c, data[i][c])]]]

\* row[label] of a row parsed with header: true; undefined without that header
ParsedCell(csv, i, label) ==
    IF label \in Elements(csv.fields) /\ label \in DOMAIN csv.rows[i]
    THEN csv.rows[i][label]
    ELSE NULL

\* parseCSV of the exported text, as cleanData reads its rows
parseCSV(csv) ==
    [i \in DOMAIN csv.rows |->
        [CONTAINER |-> ParsedCell(csv, i, "CONTAINER"),
         HB        |-> ParsedCell(csv, i, "HB"),
         MBL       |-> ParsedCell(csv, i, "MBL")]]

\* the displayed rows: a cleaned file, stored
ExportData ==
    { localDB_storedRows(1, csvUtils_cleanData(data), 0) : data \in CsvBatches } \ { <<>> }

\* handleDownloadCSV, and the exported file cleaned and stored again
exportCall ==
    \E data \in ExportData :
        /\ call = NoCall
        /\ call' = [op |-> "exportToCSV", data |-> data,
                    csv |-> exportToCSV(data),
                    validation |-> validateColumns(exportToCSV(data).fields),
                    reimported |->
                        localDB_storedRows(2,
                            csvUtils_cleanData(parseCSV(exportToCSV(data))), Len(data))]
        /\ UNCHANGED <<Stores, dash>>

(***************************************************************************)
(* C25.  Export then re-import is a round trip: the CSV produced by        *)
(* exportToCSV for N displayed records carries the ingestion header        *)
(* labels, passes validateColumns, and after cleanData and saveReportData  *)
(* yields N records whose canonical field values are those exported.       *)
(***************************************************************************)
Canonical(r) == [container |-> r.container, mbl |-> r.mbl, hb |-> r.hb]

C25_RoundTrip ==
    call.op = "exportToCSV" =>
        /\ Elements(REQUIRED_COLUMNS) \subseteq Elements(call.csv.fields)
        /\ call.validation.isValid
        /\ Len(call.reimported) = Len(call.data)
        /\ \A i \in DOMAIN call.data :
              i \in DOMAIN call.reimported
                  => Canonical(call.reimported[i]) = Canonical(call.data[i])

\* the table, the search, the filters and the export, each on a set of rows
NextView == duplicatesCall \/ filteredDataCall \/ frlFiltersCall \/ exportCall

SpecView == Init /\ [][NextView]_vars

(***************************************************************************)
(* C26.  The provenance of first sighting is stable: under any sequence of *)
(* updateMasterList calls the id, first_seen_upload_id and created_at of a *)
(* master-list entry keep the values set when the entry was created, and   *)
(* last_updated_upload_id is the uploadId of the most recent call that     *)
(* contained the key of the entry.                                         *)
(***************************************************************************)
C26_ProvenanceStep ==
    backend = "local" =>
        \A i \in DOMAIN lsMasterList :
            LET old == lsMasterList[i]
            IN  /\ old.hb \in KeysOf(lsMasterList')
                /\ EntryAt(lsMasterList', old.hb).id = old.id
                /\ EntryAt(lsMasterList', old.hb).first_seen_upload_id
                      = old.first_seen_upload_id
                /\ EntryAt(lsMasterList', old.hb).created_at = old.created_at
                /\ EntryAt(lsMasterList', old.hb).last_updated_upload_id =
                      IF nUpdates' = nUpdates + 1 /\ old.hb \in BatchKeys(call'.rows)
                      THEN call'.uploadId
                      ELSE old.last_updated_upload_id

C26_ProvenanceStable == [][C26_ProvenanceStep]_vars

\* an entry first seen in one upload was updated by a call for a later upload
C26_Witness ==
    /\ backend = "local"
    /\ Reconciled
    /\ \E i \in DOMAIN lsMasterList :
          /\ lsMasterList[i].hb \in BatchKeys(call.rows)
          /\ lsMasterList[i].first_seen_upload_id < call.uploadId
          /\ lsMasterList[i].last_updated_upload_id = call.uploadId
          /\ lsMasterList[i].id < idSeq

(***************************************************************************)
(* C27.  When one reconcile batch has the same normalized HB on several    *)
(* rows and the key is not yet in the catalog, the first such row is       *)
(* counted in itemsAdded and each later one in itemsUpdated, and the one   *)
(* resulting entry holds the field values of the last such row in batch    *)
(* order (last write wins).                                                *)
(***************************************************************************)
\* the rows of the batch that carry key k
RowsWith(rows, k) == { i \in UsableIdx(rows) : normalizeHB(rows[i].HB) = k }

\* the rows of the batch that come after the first row of their key
LaterRows(rows) ==
    { i \in UsableIdx(rows) :
        \E j \in RowsWith(rows, normalizeHB(rows[i].HB)) : j < i }

C27_RepeatedKeyStep ==
    (/\ backend = "local"
     /\ nUpdates' = nUpdates + 1
     /\ BatchKeys(call'.rows) \cap KeysOf(lsMasterList) = {})
        => /\ call'.ret.itemsAdded = Cardinality(UsableIdx(call'.rows) \ LaterRows(call'.rows))
           /\ call'.ret.itemsUpdated = Cardinality(LaterRows(call'.rows))
           /\ \A k \in BatchKeys(call'.rows) :
                 /\ Cardinality({ i \in DOMAIN lsMasterList' : lsMasterList'[i].hb = k }) = 1
                 /\ \A i \in RowsWith(call'.rows, k) :
                       (\A j \in RowsWith(call'.rows, k) : j <= i)
                           => EntryAt(lsMasterList', k).frl = OrNull(call'.rows[i].FRL)

C27_LastWriteWins == [][C27_RepeatedKeyStep]_vars

\* a batch held a new key on two rows, the FRL on the second row only
C27_Witness ==
    /\ backend = "local"
    /\ Reconciled
    /\ call.ret.itemsAdded = 1
    /\ call.ret.itemsUpdated = 1
    /\ Len(call.rows) = 2
    /\ normalizeHB(call.rows[1].HB) = normalizeHB(call.rows[2].HB)
    /\ ~Truthy(call.rows[1].FRL)
    /\ Truthy(call.rows[2].FRL)
    /\ EntryAt(lsMasterList, normalizeHB(call.rows[2].HB)).frl = call.rows[2].FRL
    /\ Len(lsMasterList) = 1

(***************************************************************************)
(* C28.  After an ingestion that calls saveReportData(u, rows) and then    *)
(* updateMasterList(u, rows) with the same rows, every non-empty hb stored *)
(* in snapshot u is a key of the master list, the entry of that key has    *)
(* last_updated_upload_id = u, and the key stored in the snapshot is       *)
(* character for character the key stored in the master list (stated for   *)
(* the localStorage backend, which records last_updated_upload_id).        *)
(***************************************************************************)
C28_SnapshotKeysInCatalog ==
    (backend = "local" /\ Reconciled)
        => LET snapshot == localDB_getReportData(lsReportData, call.uploadId)
           IN  /\ Len(snapshot) = Len(call.rows)
               /\ \A i \in DOMAIN snapshot :
                     Truthy(snapshot[i].hb)
                         => /\ snapshot[i].hb \in KeysOf(lsMasterList)
                            /\ EntryAt(lsMasterList, snapshot[i].hb).last_updated_upload_id
                                   = call.uploadId

\* a file whose HB is written in scientific notation was ingested: snapshot and
\* catalog both hold the expanded key
C28_Witness ==
    /\ backend = "local"
    /\ Reconciled
    /\ \E i \in DOMAIN call.rows :
          /\ InScientificNotation(call.rows[i].HB)
          /\ \E j \in DOMAIN lsReportData :
                /\ lsReportData[j].upload_id = call.uploadId
                /\ lsReportData[j].hb = normalizeHB(call.rows[i].HB)
                /\ lsReportData[j].hb # call.rows[i].HB
                /\ lsReportData[j].hb \in KeysOf(lsMasterList)

(***************************************************************************)
(* Dashboard, raw-snapshot mode: loadUploadData computes the metrics of    *)
(* the cards and loads the rows of the active filter.  The Dashboard reads *)
(* through localDatabase.js.                                               *)
(***************************************************************************)
\* the filter keys of the cards that filter (MetricsBar: every card but unique_mbl)
CardFilters == { "all", "with_frl", "without_frl", "new_items", "updated_items", "new_frl" }

\* setMetrics({ totalRows, withFrl, withoutFrl, newItems, removedItems, updatedItems: 0, newFrl: 0 })
loadUploadMetrics(uploadId) ==
    LET reportData == localDB_getReportData(lsReportData, uploadId)
        frl == uploadFrlMetrics(reportData)
    IN  [totalRows    |-> frl.totalRows,
         withFrl      |-> frl.withFrl,
         withoutFrl   |-> frl.withoutFrl,
         newItems     |-> detectNewItems(uploadId),
         removedItems |-> detectRemovedItems(uploadId),
         updatedItems |-> 0,
         newFrl       |-> 0]

\* switch (activeFilter): new_items, updated_items, default getReportData(uploadId, activeFilter)
loadUploadRows(uploadId, activeFilter) ==
    IF activeFilter = "new_items" THEN getNewItemsData(uploadId)
    ELSE IF activeFilter = "updated_items" THEN getRemovedItemsData(uploadId)
    ELSE localDB_getReportDataBy(lsReportData, uploadId, activeFilter)

\* MetricsBar with isMasterList false: the value of the card of a filter key
cardValue(metrics, key) ==
    IF key = "all" THEN metrics.totalRows
    ELSE IF key = "with_frl" THEN metrics.withFrl
    ELSE IF key = "without_frl" THEN metrics.withoutFrl
    ELSE IF key = "new_items" THEN metrics.newItems
    ELSE IF key = "updated_items" THEN metrics.removedItems
    ELSE metrics.newFrl

\* loadUploadData(selectedUpload) under some active filter
loadUploadDataCall ==
    /\ backend = "local"
    /\ \E uploadId \in ExistingIds, activeFilter \in CardFilters :
          call' = [op |-> "loadUploadData", uploadId |-> uploadId,
                   activeFilter |-> activeFilter,
                   metrics |-> loadUploadMetrics(uploadId),
                   data |-> loadUploadRows(uploadId, activeFilter)]
    /\ UNCHANGED <<Stores, dash>>

\* files are stored, uploads are deleted, and the Dashboard shows a snapshot
NextCards == createFile \/ storeFile \/ deleteUpload \/ loadUploadDataCall

SpecCards == Init /\ [][NextCards]_vars

(***************************************************************************)
(* C29.  In raw-snapshot mode the value shown on each metric card equals   *)
(* the number of rows loaded when the filter of that card is selected      *)
(* with no search text: for all, with_frl, without_frl, new_items, the     *)
(* Removed card (filter key updated_items) and new_frl, for every snapshot *)
(* content and every upload position.                                      *)
(***************************************************************************)
C29_CardsMatchRows ==
    call.op = "loadUploadData"
        => cardValue(call.metrics, call.activeFilter) = Len(call.data)

(***************************************************************************)
(* Dashboard: selection, effect and loads.  The effect of the selection    *)
(* (useEffect on isMasterList, selectedUpload, activeFilter) starts        *)
(* loadMasterListData or loadUploadData; a load is an async function that  *)
(* sets its result after its last await.  The Dashboard reads through      *)
(* localDatabase.js, whose functions work on localStorage and return       *)
(* settled promises: every await of a load resumes in the next turn of the *)
(* microtask queue, in the order in which the loads were started, and a    *)
(* user event is handled only when no load is in flight.  When the effect  *)
(* of a render runs is decided by React: after the render, before the next *)
(* render, and either in the task of the event or in a later one.          *)
(***************************************************************************)
\* the awaits of a load up to setData: loadUploadData awaits getReportData,
\* detectNewItems, detectRemovedItems and the rows of the filter; loadMasterListData
\* awaits the metrics and three lists, and getMasterListData in the default case
awaitsOf(selection) ==
    IF selection.isMasterList
    THEN (IF selection.activeFilter \in {"new_items", "updated_items", "new_frl"} THEN 4 ELSE 5)
    ELSE 4

\* the effect: if (isMasterList) loadMasterListData(); else if (selectedUpload)
\* loadUploadData(selectedUpload); the load runs to its first await (setLoading(true))
runEffect(d) ==
    IF d.selection.isMasterList \/ d.selection.selectedUpload # 0
    THEN [d EXCEPT !.effect = FALSE,
                   !.loading = TRUE,
                   !.loads = Append(@, [selection |-> d.selection,
                                        awaits |-> awaitsOf(d.selection)])]
    ELSE [d EXCEPT !.effect = FALSE]

\* one turn of the microtask queue: every load in flight resumes after its await, in
\* the order of the queue; a load past its last await sets metrics and data
\* (setMetrics, setData, setLoading(false))
resumeLoads(d) ==
    LET resumed == [i \in DOMAIN d.loads |-> [d.loads[i] EXCEPT !.awaits = @ - 1]]
        finished == { i \in DOMAIN resumed : resumed[i].awaits = 0 }
    IN  [d EXCEPT !.loads = Filter(resumed, DOMAIN resumed \ finished),
                  !.shown = IF finished = {} THEN @
                            ELSE resumed[CHOOSE i \in finished : \A j \in finished : j <= i].selection,
                  !.loading = IF finished = {} THEN @ ELSE FALSE]

\* a handler sets the selection: the effect of the last render, if it has not run
\* yet, runs before the new render; the effect of the new render runs in the same
\* task (sameTask) or is left to run later
selectionChange(d, selection, sameTask) ==
    LET flushed == IF d.effect THEN runEffect(d) ELSE d
        changed == selection # d.selection
        rendered == [flushed EXCEPT !.selection = selection, !.effect = changed]
    IN  IF sameTask /\ changed THEN runEffect(rendered) ELSE rendered

\* the pending effect runs in a task of its own
flushEffect ==
    /\ backend = "local"
    /\ dash.loads = <<>>
    /\ dash.effect
    /\ dash' = runEffect(dash)
    /\ UNCHANGED <<Stores, call>>

microtask ==
    /\ backend = "local"
    /\ dash.loads # <<>>
    /\ dash' = resumeLoads(dash)
    /\ UNCHANGED <<Stores, call>>

\* handleSelectUpload(uploadId): setSelectedUpload, setIsMasterList(false),
\* setActiveFilter('all') (and setSearchText(''), which no load reads)
handleSelectUpload ==
    /\ backend = "local"
    /\ dash.loads = <<>>
    /\ \E uploadId \in ExistingIds, sameTask \in BOOLEAN :
          dash' = selectionChange(dash, Selection(FALSE, uploadId, "all"), sameTask)
    /\ UNCHANGED <<Stores, call>>

\* handleSelectMasterList(): setSelectedUpload(null), setIsMasterList(true),
\* setActiveFilter('all')
handleSelectMasterList ==
    /\ backend = "local"
    /\ dash.loads = <<>>
    /\ \E sameTask \in BOOLEAN :
          dash' = selectionChange(dash, Selection(TRUE, 0, "all"), sameTask)
    /\ UNCHANGED <<Stores, call>>

\* handleFilterChange(filter): setActiveFilter(filter)
handleFilterChange ==
    /\ backend = "local"
    /\ dash.loads = <<>>
    /\ \E filter \in CardFilters, sameTask \in BOOLEAN :
          dash' = selectionChange(dash, [dash.selection EXCEPT !.activeFilter = filter],
                                  sameTask)
    /\ UNCHANGED <<Stores, call>>

\* uploads are created and the user moves through the Dashboard
NextDash ==
    \/ createFile
    \/ flushEffect
    \/ microtask
    \/ handleSelectUpload
    \/ handleSelectMasterList
    \/ handleFilterChange

SpecDash == Init /\ [][NextDash]_vars

(***************************************************************************)
(* C30.  When the user changes the selection (upload, master list or       *)
(* filter) while an earlier load is still in flight, then once all loads   *)
(* have completed the data and metrics held by the Dashboard are those of  *)
(* the most recent selection: a load started for an older selection never  *)
(* overwrites the result of a newer one.                                   *)
(***************************************************************************)
C30_LatestSelectionShown ==
    (dash.loads = <<>> /\ ~dash.effect) => dash.shown = dash.selection

====
